---------------------------- MODULE Spec2Model ----------------------------
(***************************************************************************)
(* A model of the scheduling-and-dispatch engine of nextjs-crons: the      *)
(* CronRunner class (src/src/cli.ts, lines 242-536), the config file it    *)
(* reads, the node-cron timers it registers and the transport (fetch) it   *)
(* calls.                                                                  *)
(*                                                                         *)
(* JavaScript runs the engine on one event loop: a method body runs        *)
(* without interruption up to its next `await`.  Each action below is one  *)
(* such uninterrupted run: a public method up to its first await (start,   *)
(* stop and listJobs have none), a timer firing up to the fetch, the       *)
(* resumption after the fetch settles, the resumption after the body read  *)
(* settles.                                                                *)
(***************************************************************************)
EXTENDS Integers, Sequences, FiniteSets, TLC

VARIABLES
    options,      \* this.options, fixed by the constructor
    file,         \* what the config file at options.configPath holds
    env,          \* process.env.CRON_SECRET ("" when unset)
    held,         \* the objects getStats() has returned, as the caller holds them
    cli,          \* the command-line process: its arguments, where main() is, its exit code
    config,       \* this.config: the crons of the last successful load, or NoConfig
    tasks,        \* this.tasks: Map path -> handle of the ScheduledTask
    timers,       \* node-cron: the scheduled tasks that have not been stopped
    nextHandle,   \* node-cron: identity of the next ScheduledTask created
    stats,        \* this.stats
    clock,        \* Date.now(): advances with every dispatch that starts
    inflight,     \* executeCron calls suspended at an await
    allRun,       \* the executeAll call in progress (its locals), or NoRun
    ret,          \* what the step just taken handed to the engine's caller
    nCompleted,   \* history: executeCron calls that have settled
    nOk,          \* history: those that settled on a response with ok = true
    nRejected,    \* history: timer callbacks whose promise rejected
    logged        \* history: the last `Response body:` line written to the console

vars == <<options, file, env, held, cli, config, tasks, timers, nextHandle, stats, clock,
          inflight, allRun, ret, nCompleted, nOk, nRejected, logged>>

-----------------------------------------------------------------------------
(* Bounds of the model.                                                    *)

\* ScheduledTasks created over one behaviour.
MaxHandles == 2
\* Dispatches (executeCron calls) started over one behaviour.
MaxDispatches == 2
\* Edits of the config file over one behaviour.
MaxEdits == 1
\* The longest filter pattern tried, in characters.
MaxFilterLen == 3
\* How many objects returned by getStats() the caller keeps.
MaxHeld == 1

-----------------------------------------------------------------------------
(* Values.                                                                 *)

\* Job paths and filter patterns are strings, modelled as sequences of
\* one-character strings.
PathA == <<"/", "a">>
PathB == <<"/", "b">>
Paths == {PathA, PathB}

\* Two well-formed 5-field expressions and one that node-cron rejects.
EveryMinute == "* * * * *"
Daily == "0 8 * * *"
Invalid == "invalid"

Job(p, s) == [path |-> p, schedule |-> s]

\* The crons arrays the config file can hold: the valid-jobs shape of the
\* test suite cut to two paths, an invalid schedule in each position, two
\* jobs with one path, and the empty array.  With FilterA the first and the
\* third are one-job lists.
CronLists ==
    { <<>>,
      <<Job(PathA, EveryMinute), Job(PathB, Daily)>>,
      <<Job(PathA, Invalid), Job(PathB, Daily)>>,
      <<Job(PathA, EveryMinute), Job(PathB, Invalid)>>,
      <<Job(PathA, EveryMinute), Job(PathA, Daily)>> }

\* What the file system and JSON.parse can give loadConfig.
FileMissing == [kind |-> "missing"]
FileBadJson == [kind |-> "badjson"]
FileNull == [kind |-> "null"]
FileNoCrons == [kind |-> "nocrons"]
FileCronsNotArray == [kind |-> "cronsNotArray"]
FileCrons(l) == [kind |-> "crons", crons |-> l]
Files ==
    {FileMissing, FileBadJson, FileNull, FileNoCrons, FileCronsNotArray}
        \cup {FileCrons(l) : l \in CronLists}


\* The transport's answers.  A response carries its status, ok as fetch
\* derives it from the status (200-299), and a content-length header
\* (NoLength when the header is absent).
NoLength == -1
maxBodySize == 10240
Response(st, cl) ==
    [ok |-> (st >= 200 /\ st <= 299), status |-> st, contentLength |-> cl]
Responses ==
    { Response(st, cl) :
        st \in {200, 304, 500},
        cl \in {NoLength, maxBodySize, maxBodySize + 1} }
\* What a rejected transport call throws: an Error with a message, an Error
\* with the empty message, or a value that is not an Error.
Thrown ==
    { [isError |-> TRUE, message |-> "fetch failed"],
      [isError |-> TRUE, message |-> ""],
      [isError |-> FALSE, message |-> "thrown string"] }
\* How the transport call of a dispatch settles.
Resolved(r) == [resolved |-> TRUE, response |-> r]
Rejected(e) == [resolved |-> FALSE, thrown |-> e]
Outcomes == {Resolved(r) : r \in Responses} \cup {Rejected(e) : e \in Thrown}
\* One outcome of each kind the engine tells apart: an ok response, a non-ok
\* response (neither declaring a content-length) and a thrown Error.
CoreOutcomes ==
    { Resolved(Response(200, NoLength)), Resolved(Response(500, NoLength)),
      Rejected([isError |-> TRUE, message |-> "fetch failed"]) }
\* How a body read ends: a text of some length, or an error.
BodyReads ==
    { [read |-> TRUE, length |-> maxBodySize],
      [read |-> TRUE, length |-> maxBodySize + 1],
      [read |-> FALSE, length |-> 0] }

\* One body read for the specifications that do not look at what is logged.
CoreBodyReads == {[read |-> TRUE, length |-> maxBodySize]}

\* cronSecret: options.cronSecret || process.env.CRON_SECRET || "".  An
\* option or variable that is undefined or empty is "".
ResolveSecret(given, ambient) ==
    IF given # "" THEN given ELSE IF ambient # "" THEN ambient ELSE ""

\* The options a constructed engine can hold (baseUrl has passed
\* validateOptions; configPath names the file modelled by `file`).
NoFilter == <<>>
FilterA == <<"/", "a", "*">>
OptionSets ==
    [cronSecret : {"", "abc"}, verbose : {0, 1, 2}, filter : {NoFilter, FilterA}]
\* The options that change what the engine does to its state: with or
\* without a filter, with (2) or without (0) the body read.  Verbosity 1 and
\* the secret change only what is logged and which headers are sent.
CoreOptions ==
    {o \in OptionSets : o.cronSecret = "abc" /\ o.verbose \in {0, 2}}

-----------------------------------------------------------------------------
(* ConfigStore: loadConfig.                                                *)

Loaded(l) == [ok |-> TRUE, crons |-> l]
LoadError(e) == [ok |-> FALSE, error |-> e]

\* A loader that reads the file only while the engine holds no config.
loadConfigOnce(f) ==
    IF config.loaded THEN Loaded(config.crons)
    ELSE CASE f.kind = "missing" -> LoadError("ConfigNotFound")
           [] f.kind = "badjson" -> LoadError("InvalidJson")
           [] f.kind = "null" -> LoadError("TypeError")
           [] f.kind = "nocrons" -> LoadError("MissingCronsArray")
           [] f.kind = "cronsNotArray" -> LoadError("MissingCronsArray")
           [] OTHER -> Loaded(f.crons)

\* existsSync false: "Config file not found".  JSON.parse throws a
\* SyntaxError: rethrown as "Invalid JSON".  The parsed value is null: reading
\* config.crons throws a TypeError, which is not a SyntaxError and is rethrown
\* as it is.  No crons, or crons not an array: 'missing "crons" array'.
loadConfig(f) ==
    CASE f.kind = "missing" -> LoadError("ConfigNotFound")
      [] f.kind = "badjson" -> LoadError("InvalidJson")
      [] f.kind = "null" -> LoadError("TypeError")
      [] f.kind = "nocrons" -> LoadError("MissingCronsArray")
      [] f.kind = "cronsNotArray" -> LoadError("MissingCronsArray")
      [] OTHER -> Loaded(f.crons)

-----------------------------------------------------------------------------
(* PathFilter: filterJobs.                                                 *)

\* A translation that lets each `*` stand for exactly one character.
ReplaceStarsByDot(pat) ==
    [i \in 1..Len(pat) |-> IF pat[i] = "*" THEN "." ELSE pat[i]]

\* filter.replace(/\*/g, ".*")
RECURSIVE ReplaceStars(_)
ReplaceStars(pat) ==
    IF pat = <<>> THEN <<>>
    ELSE IF Head(pat) = "*" THEN <<".", "*">> \o ReplaceStars(Tail(pat))
    ELSE <<Head(pat)>> \o ReplaceStars(Tail(pat))

\* A matcher that takes every atom for a literal.
AtomMatchesLiteral(atom, ch) == atom = ch

\* One regular-expression atom against one character: "." matches any
\* character, any other atom of the alphabet matches itself.
AtomMatches(atom, ch) == atom = "." \/ atom = ch

\* new RegExp("^" + re + "$").test(s), for expressions made of literal
\* characters, "." and starred atoms.
RECURSIVE RegexTest(_, _)
RegexTest(re, s) ==
    IF re = <<>> THEN s = <<>>
    ELSE IF Len(re) >= 2 /\ re[2] = "*"
    THEN \/ RegexTest(Tail(Tail(re)), s)
         \/ /\ s # <<>>
            /\ AtomMatches(re[1], Head(s))
            /\ RegexTest(re, Tail(s))
    ELSE /\ s # <<>>
         /\ AtomMatches(re[1], Head(s))
         /\ RegexTest(Tail(re), Tail(s))

RECURSIVE SelectJobs(_, _)
SelectJobs(jobs, re) ==
    IF jobs = <<>> THEN <<>>
    ELSE IF RegexTest(re, Head(jobs).path)
    THEN <<Head(jobs)>> \o SelectJobs(Tail(jobs), re)
    ELSE SelectJobs(Tail(jobs), re)

\* An undefined or empty filter is falsy: the jobs are returned as they are.
filterJobs(jobs, filter) ==
    IF filter = NoFilter THEN jobs
    ELSE SelectJobs(jobs, ReplaceStars(filter))

-----------------------------------------------------------------------------
(* ScheduleValidator: validateCronSchedule delegates to node-cron.         *)

validateCronSchedule(schedule) == schedule \in {EveryMinute, Daily}

-----------------------------------------------------------------------------
(* The engine's state after construction.                                  *)

NoConfig == [loaded |-> FALSE]
EmptyMap == [p \in {} |-> 0]
NoRun == [active |-> FALSE]
NoReturn == [op |-> "none"]
NoTime == <<>>
\* No response body has been logged.
NoLine == [kind |-> "none"]
\* The engine is used as a library: no command-line process.
NotRun == [pos |-> "none"]
Range(f) == {f[x] : x \in DOMAIN f}

InitialStats ==
    [totalJobs |-> 0, successfulExecutions |-> 0, failedExecutions |-> 0,
     lastExecution |-> NoTime]

\* The state of a freshly constructed engine, whatever its options and the
\* config file.
Constructed ==
    /\ config = NoConfig
    /\ tasks = EmptyMap
    /\ timers = {}
    /\ nextHandle = 1
    /\ stats = InitialStats
    /\ clock = 0
    /\ inflight = {}
    /\ allRun = NoRun
    /\ ret = NoReturn
    /\ nCompleted = 0
    /\ nOk = 0
    /\ nRejected = 0
    /\ logged = NoLine

Init ==
    /\ options \in CoreOptions
    /\ file \in [content : Files, edits : {0}]
    /\ env = ""
    /\ held = {}
    /\ cli = NotRun
    /\ Constructed

\* The variables no step of a dispatch and no public call writes.
fixedVars == <<options, file, env, held, cli>>
\* The Timer Registry and node-cron's side of it.
timerVars == <<tasks, timers, nextHandle>>
\* The history of settled dispatches.
countVars == <<nCompleted, nOk, nRejected, logged>>

-----------------------------------------------------------------------------
(* Timer Registry: start and stop.                                         *)

\* The jobs the loop of start gets through before it throws: the jobs in
\* front of the first one whose schedule fails validation.
RECURSIVE ScheduledPrefix(_)
ScheduledPrefix(jobs) ==
    IF jobs = <<>> \/ ~validateCronSchedule(Head(jobs).schedule) THEN <<>>
    ELSE <<Head(jobs)>> \o ScheduledPrefix(Tail(jobs))

\* cron.schedule for each job of `jobs` in turn: the ScheduledTasks created,
\* with identities first, first + 1, ...
NewTimers(jobs, first) ==
    { [id |-> first + i - 1, job |-> jobs[i]] : i \in 1..Len(jobs) }

\* A registry that keeps only the first job's ScheduledTask.
SetTasksFirstOnly(map, jobs, first) ==
    IF jobs = <<>> THEN map ELSE (Head(jobs).path :> first) @@ map

\* this.tasks.set(job.path, task) for each job of `jobs` in turn: a later job
\* with the same path replaces the earlier entry.
RECURSIVE SetTasks(_, _, _)
SetTasks(map, jobs, first) ==
    IF jobs = <<>> THEN map
    ELSE SetTasks((Head(jobs).path :> first) @@ map, Tail(jobs), first + 1)

\* The handles stop() calls task.stop() on: the values of this.tasks.
StoppedBy(map) == Range(map)

\* A stop() that forgets to clear the map.
TasksNotCleared(map) == map

\* this.tasks after stop(): this.tasks.clear().
ClearedTasks(map) == EmptyMap

\* this.config = this.loadConfig(), the load having succeeded.
Reload(loaded) == config' = [loaded |-> TRUE, crons |-> loaded.crons]

\* Public operation op throws error.
Throws(op, error) == ret' = [op |-> op, outcome |-> error]

\* A start() that records totalJobs before it checks that a job is left.
StartCountingFirst ==
    LET loaded == loadConfig(file.content)
        jobs == filterJobs(loaded.crons, options.filter)
        done == ScheduledPrefix(jobs)
    IN  /\ IF ~loaded.ok
           THEN /\ Throws("start", loaded.error)
                /\ UNCHANGED <<config, stats, timerVars>>
           ELSE IF jobs = <<>>
           THEN /\ Reload(loaded)
                /\ stats' = [stats EXCEPT !.totalJobs = Len(jobs)]
                /\ Throws("start", "NoMatchingJobs")
                /\ UNCHANGED timerVars
           ELSE /\ nextHandle + Len(done) - 1 <= MaxHandles
                /\ Reload(loaded)
                /\ stats' = [stats EXCEPT !.totalJobs = Len(jobs)]
                /\ timers' = timers \cup NewTimers(done, nextHandle)
                /\ tasks' = SetTasks(tasks, done, nextHandle)
                /\ nextHandle' = nextHandle + Len(done)
                /\ ret' =
                       IF Len(done) = Len(jobs)
                       THEN [op |-> "start", outcome |-> "ok"]
                       ELSE [op |-> "start", outcome |-> "InvalidSchedule",
                             path |-> jobs[Len(done) + 1].path,
                             schedule |-> jobs[Len(done) + 1].schedule]
        /\ UNCHANGED <<fixedVars, clock, inflight, allRun, countVars>>

Start ==
    LET loaded == loadConfig(file.content)
        jobs == filterJobs(loaded.crons, options.filter)
        done == ScheduledPrefix(jobs)
    IN  /\ IF ~loaded.ok
           THEN /\ Throws("start", loaded.error)
                /\ UNCHANGED <<config, stats, timerVars>>
           ELSE IF jobs = <<>>
           THEN /\ Reload(loaded)
                /\ Throws("start", "NoMatchingJobs")
                /\ UNCHANGED <<stats, timerVars>>
           ELSE /\ nextHandle + Len(done) - 1 <= MaxHandles
                /\ Reload(loaded)
                /\ stats' = [stats EXCEPT !.totalJobs = Len(jobs)]
                /\ timers' = timers \cup NewTimers(done, nextHandle)
                /\ tasks' = SetTasks(tasks, done, nextHandle)
                /\ nextHandle' = nextHandle + Len(done)
                /\ ret' =
                       IF Len(done) = Len(jobs)
                       THEN [op |-> "start", outcome |-> "ok"]
                       ELSE [op |-> "start", outcome |-> "InvalidSchedule",
                             path |-> jobs[Len(done) + 1].path,
                             schedule |-> jobs[Len(done) + 1].schedule]
        /\ UNCHANGED <<fixedVars, clock, inflight, allRun, countVars>>

\* A stop() that also resets the statistics.
StopResettingStats ==
    /\ timers' = {t \in timers : t.id \notin StoppedBy(tasks)}
    /\ tasks' = ClearedTasks(tasks)
    /\ stats' = InitialStats
    /\ ret' = [op |-> "stop", outcome |-> "ok", stopped |-> StoppedBy(tasks)]
    /\ UNCHANGED <<fixedVars, config, nextHandle, clock, inflight, allRun,
                   countVars>>

\* A stop() that also abandons the dispatches in flight.
StopCancellingDispatches ==
    /\ timers' = {t \in timers : t.id \notin StoppedBy(tasks)}
    /\ tasks' = ClearedTasks(tasks)
    /\ inflight' = {}
    /\ ret' = [op |-> "stop", outcome |-> "ok", stopped |-> StoppedBy(tasks)]
    /\ UNCHANGED <<fixedVars, config, nextHandle, stats, clock, allRun,
                   countVars>>

Stop ==
    /\ timers' = {t \in timers : t.id \notin StoppedBy(tasks)}
    /\ tasks' = ClearedTasks(tasks)
    /\ ret' = [op |-> "stop", outcome |-> "ok", stopped |-> StoppedBy(tasks)]
    /\ UNCHANGED <<fixedVars, config, nextHandle, stats, clock, inflight,
                   allRun, countVars>>

-----------------------------------------------------------------------------
(* Dispatcher: executeCron.                                                *)

\* The request headers: Authorization only for a non-empty secret.
BuildHeaders(secret) ==
    IF secret # ""
    THEN [contentType |-> "application/json",
          authorization |-> <<"Bearer", secret>>]
    ELSE [contentType |-> "application/json"]

\* A dispatcher that resolves the secret when it builds the request, from
\* the option the constructor was given and the environment as it is then.
DispatchResolvingLate(job, origin, handle, now) ==
    [job |-> job, timestamp |-> now, origin |-> origin, handle |-> handle,
     headers |-> BuildHeaders(ResolveSecret(options.given, env)),
     phase |-> "fetch", calls |-> 1]

\* executeCron up to `await fetchFn(...)`: the call's locals.  `origin` and
\* `handle` say who awaits the call: a timer callback ("timer", with the
\* ScheduledTask's identity), executeAll ("all") or executeOne ("one");
\* `calls` is the number of fetchFn calls the executeCron call has made.
Dispatch(job, origin, handle, now) ==
    [job |-> job, timestamp |-> now, origin |-> origin, handle |-> handle,
     headers |-> BuildHeaders(options.cronSecret), phase |-> "fetch",
     calls |-> 1]

\* A body capture that never truncates.
responseBodyUncapped(resp, body) ==
    IF resp.contentLength # NoLength /\ resp.contentLength > maxBodySize
    THEN [kind |-> "tooLarge", declared |-> resp.contentLength,
          max |-> maxBodySize]
    ELSE IF ~body.read THEN [kind |-> "unreadable"]
    ELSE [kind |-> "whole", length |-> body.length]

\* responseBody at verbosity 2, texts being told apart by their length: the
\* size placeholder, the placeholder of a failed read, the text whole, or
\* its first maxBodySize characters and the marker with the total length.
responseBody(resp, body) ==
    IF resp.contentLength # NoLength /\ resp.contentLength > maxBodySize
    THEN [kind |-> "tooLarge", declared |-> resp.contentLength,
          max |-> maxBodySize]
    ELSE IF ~body.read THEN [kind |-> "unreadable"]
    ELSE IF body.length <= maxBodySize
    THEN [kind |-> "whole", length |-> body.length]
    ELSE [kind |-> "truncated", shown |-> maxBodySize,
          total |-> body.length]

\* `if (this.options.verbose >= 2 && responseBody) this.log(...)`: the empty
\* text is falsy and is not logged.
LogBody(verbose, rb) ==
    logged' = IF verbose >= 2 /\ ~(rb.kind = "whole" /\ rb.length = 0)
              THEN rb ELSE logged

\* No body was read.
NoBody == [read |-> FALSE, length |-> 0]

\* Whether executeCron goes on to read the body: at verbosity 2, when no
\* content-length is declared or the declared one is within the cap.
ReadsBody(verbose, resp) ==
    /\ verbose >= 2
    /\ (resp.contentLength = NoLength \/ resp.contentLength <= maxBodySize)

\* A dispatcher that takes every status below 400 for a success.
ResponseResultBelow400(d, resp) ==
    [path |-> d.job.path, schedule |-> d.job.schedule,
     success |-> (resp.status < 400), statusCode |-> resp.status,
     timestamp |-> d.timestamp]

\* The value executeCron returns once a response was obtained.
ResponseResult(d, resp) ==
    [path |-> d.job.path, schedule |-> d.job.schedule, success |-> resp.ok,
     statusCode |-> resp.status, timestamp |-> d.timestamp]

\* A dispatcher that counts every response as a success.
StatsOnResponseAllSuccess(st, d, resp) ==
    [st EXCEPT !.successfulExecutions = @ + 1,
               !.lastExecution = <<d.timestamp>>]

\* this.stats after the success/failure branch and lastExecution = timestamp.
StatsOnResponse(st, d, resp) ==
    IF resp.ok
    THEN [st EXCEPT !.successfulExecutions = @ + 1,
                    !.lastExecution = <<d.timestamp>>]
    ELSE [st EXCEPT !.failedExecutions = @ + 1,
                    !.lastExecution = <<d.timestamp>>]

\* error instanceof Error ? error.message : "Unknown error"
ErrorMessage(e) == IF e.isError THEN e.message ELSE "Unknown error"

\* The value the catch block returns.
ThrownResult(d, e) ==
    [path |-> d.job.path, schedule |-> d.job.schedule, success |-> FALSE,
     error |-> ErrorMessage(e), timestamp |-> d.timestamp]

\* A catch block that forgets to count the failure.
StatsOnThrownUncounted(st, d, e) == st

\* this.stats after the catch block: the failure is counted; lastExecution
\* is not assigned there.
StatsOnThrown(st, d, e) == [st EXCEPT !.failedExecutions = @ + 1]

\* How the promise of executeCron settles: the try block returns on every
\* response, and the catch block returns on everything thrown.
Returned(r) == [returned |-> TRUE, result |-> r]
Raised(e) == [returned |-> FALSE, thrown |-> e]
SettleOnResponse(d, resp) == Returned(ResponseResult(d, resp))
\* A dispatcher whose catch block rethrows.
SettleOnThrownRethrows(d, e) == Raised(e)
SettleOnThrown(d, e) == Returned(ThrownResult(d, e))

-----------------------------------------------------------------------------
(* Engine: the one-shot operations and what awaits a dispatch.             *)

\* A lookup that takes the last job with the path.
FindJobLast(crons, path) ==
    LET hits == {i \in 1..Len(crons) : crons[i].path = path}
    IN  IF hits = {} THEN <<>>
        ELSE <<crons[CHOOSE i \in hits : \A j \in hits : j <= i]>>

\* this.config.crons.find((j) => j.path === path): the first job with the
\* path, as a sequence of at most one job.
RECURSIVE FindJob(_, _)
FindJob(crons, path) ==
    IF crons = <<>> THEN <<>>
    ELSE IF Head(crons).path = path THEN <<Head(crons)>>
    ELSE FindJob(Tail(crons), path)

\* An executeAll that collects its results newest first.
PushResultFront(results, r) == <<r>> \o results

\* results.push(result)
PushResult(results, r) == Append(results, r)

\* The two execution counters of this.stats, as getStats() would show them.
Counters(st) ==
    [successfulExecutions |-> st.successfulExecutions,
     failedExecutions |-> st.failedExecutions]

\* Dispatches the executeAll call in progress has still to start.
Reserved ==
    IF allRun.active THEN Len(allRun.jobs) - Len(allRun.results) - 1 ELSE 0

\* The model's budget of dispatches allows one more to start.
CanDispatch == clock + Reserved < MaxDispatches

\* A callback that gives up its timer when the dispatch failed: it stops
\* the ScheduledTask and drops its entry of this.tasks.
TimerCallbackStopsOnFailure(d, settled) ==
    LET failed == ~settled.returned \/ ~settled.result.success
    IN  /\ inflight' = inflight \ {d}
        /\ nRejected' = nRejected + (IF settled.returned THEN 0 ELSE 1)
        /\ ret' = NoReturn
        /\ timers' = IF failed THEN {t \in timers : t.id # d.handle}
                     ELSE timers
        /\ tasks' = IF failed
                    THEN [p \in {q \in DOMAIN tasks : tasks[q] # d.handle}
                            |-> tasks[p]]
                    ELSE tasks
        /\ UNCHANGED <<allRun, clock, nextHandle>>

\* The timer callback, `async () => { await this.executeCron(job); }`, after
\* its executeCron call settled: it does nothing more, and a rejection of
\* executeCron would reject the callback's own promise.
TimerCallbackResumes(d, settled) ==
    /\ inflight' = inflight \ {d}
    /\ nRejected' = nRejected + (IF settled.returned THEN 0 ELSE 1)
    /\ ret' = NoReturn
    /\ UNCHANGED <<allRun, clock, timerVars>>

\* An executeOne that shuts the timers down when its dispatch is done.
ExecuteOneResumesStopping(d, settled) ==
    /\ inflight' = inflight \ {d}
    /\ ret' = [op |-> "executeOne", outcome |-> "ok",
               result |-> settled.result]
    /\ tasks' = EmptyMap
    /\ timers' = {}
    /\ UNCHANGED <<allRun, clock, nRejected, nextHandle>>

\* executeOne returns the promise of its executeCron call.
ExecuteOneResumes(d, settled) ==
    /\ inflight' = inflight \ {d}
    /\ ret' = IF settled.returned
              THEN [op |-> "executeOne", outcome |-> "ok",
                    result |-> settled.result]
              ELSE [op |-> "executeOne", outcome |-> "DispatchError"]
    /\ UNCHANGED <<allRun, clock, nRejected, timerVars>>

\* executeAll pushes the result and goes on with the next job (up to its
\* fetch), or returns the results after the last job; a rejection of
\* executeCron would leave the loop and reject executeAll.
\* An executeAll that is never resumed after a dispatch that failed.
ExecuteAllResumesStallingOnFailure(d, settled) ==
    LET results == PushResult(allRun.results, settled.result)
        n == Len(allRun.results) + 1
        failed == ~settled.returned \/ ~settled.result.success
    IN  /\ IF failed
           THEN /\ inflight' = inflight \ {d}
                /\ ret' = NoReturn
                /\ UNCHANGED <<allRun, clock>>
           ELSE IF n >= Len(allRun.jobs)
           THEN /\ inflight' = inflight \ {d}
                /\ allRun' = NoRun
                /\ ret' = [op |-> "executeAll", outcome |-> "ok",
                           results |-> results]
                /\ UNCHANGED clock
           ELSE /\ clock' = clock + 1
                /\ inflight' = (inflight \ {d}) \cup
                       {Dispatch(allRun.jobs[n + 1], "all", 0, clock + 1)}
                /\ allRun' = [allRun EXCEPT !.results = results]
                /\ ret' = NoReturn
        /\ UNCHANGED <<nRejected, timerVars>>

ExecuteAllResumes(d, settled) ==
    LET results == PushResult(allRun.results, settled.result)
        n == Len(allRun.results) + 1
    IN  /\ IF ~settled.returned
           THEN /\ inflight' = inflight \ {d}
                /\ allRun' = NoRun
                /\ ret' = [op |-> "executeAll", outcome |-> "DispatchError"]
                /\ UNCHANGED clock
           ELSE IF n >= Len(allRun.jobs)
           THEN /\ inflight' = inflight \ {d}
                /\ allRun' = NoRun
                /\ ret' = [op |-> "executeAll", outcome |-> "ok",
                           results |-> results]
                /\ UNCHANGED clock
           ELSE /\ clock' = clock + 1
                /\ inflight' = (inflight \ {d}) \cup
                       {Dispatch(allRun.jobs[n + 1], "all", 0, clock + 1)}
                /\ allRun' = [allRun EXCEPT !.results = results]
                /\ ret' = NoReturn
        /\ UNCHANGED <<nRejected, timerVars>>

\* executeCall d settles as `settled` after transport outcome `outcome`,
\* leaving this.stats = st, and whoever awaits it runs on.
Resume(d, settled, st, outcome) ==
    /\ stats' = st
    /\ nCompleted' = nCompleted + 1
    /\ nOk' = nOk + (IF outcome.resolved /\ outcome.response.ok THEN 1 ELSE 0)
    /\ CASE d.origin = "timer" -> TimerCallbackResumes(d, settled)
         [] d.origin = "one" -> ExecuteOneResumes(d, settled)
         [] d.origin = "all" -> ExecuteAllResumes(d, settled)
    /\ UNCHANGED <<fixedVars, config>>

\* An executeAll that records the size of its job list as start() does.
ExecuteAllCallCountingJobs ==
    LET loaded == loadConfig(file.content)
        jobs == filterJobs(loaded.crons, options.filter)
    IN  /\ ~allRun.active
        /\ loaded.ok
        /\ jobs # <<>>
        /\ clock + Len(jobs) <= MaxDispatches
        /\ Reload(loaded)
        /\ stats' = [stats EXCEPT !.totalJobs = Len(jobs)]
        /\ allRun' = [active |-> TRUE, jobs |-> jobs, results |-> <<>>,
                      before |-> Counters(stats)]
        /\ clock' = clock + 1
        /\ inflight' = inflight \cup {Dispatch(jobs[1], "all", 0, clock + 1)}
        /\ ret' = NoReturn
        /\ UNCHANGED <<fixedVars, timerVars, countVars>>

\* An executeAll that starts the dispatches of all its jobs at once.
ExecuteAllCallStartingAll ==
    LET loaded == loadConfig(file.content)
        jobs == filterJobs(loaded.crons, options.filter)
    IN  /\ ~allRun.active
        /\ IF ~loaded.ok
           THEN /\ Throws("executeAll", loaded.error)
                /\ UNCHANGED <<config, clock, inflight, allRun>>
           ELSE IF jobs = <<>>
           THEN /\ Reload(loaded)
                /\ Throws("executeAll", "NoMatchingJobs")
                /\ UNCHANGED <<clock, inflight, allRun>>
           ELSE /\ clock + Len(jobs) <= MaxDispatches
                /\ Reload(loaded)
                /\ allRun' = [active |-> TRUE, jobs |-> jobs, results |-> <<>>,
                              before |-> Counters(stats)]
                /\ clock' = clock + Len(jobs)
                /\ inflight' = inflight \cup
                       {Dispatch(jobs[i], "all", 0, clock + i) :
                            i \in 1..Len(jobs)}
                /\ ret' = NoReturn
        /\ UNCHANGED <<fixedVars, timerVars, stats, countVars>>

ExecuteAllCall ==
    LET loaded == loadConfig(file.content)
        jobs == filterJobs(loaded.crons, options.filter)
    IN  /\ ~allRun.active
        /\ IF ~loaded.ok
           THEN /\ Throws("executeAll", loaded.error)
                /\ UNCHANGED <<config, clock, inflight, allRun>>
           ELSE IF jobs = <<>>
           THEN /\ Reload(loaded)
                /\ Throws("executeAll", "NoMatchingJobs")
                /\ UNCHANGED <<clock, inflight, allRun>>
           ELSE /\ clock + Len(jobs) <= MaxDispatches
                /\ Reload(loaded)
                /\ allRun' = [active |-> TRUE, jobs |-> jobs, results |-> <<>>,
                              before |-> Counters(stats)]
                /\ clock' = clock + 1
                /\ inflight' = inflight \cup
                       {Dispatch(jobs[1], "all", 0, clock + 1)}
                /\ ret' = NoReturn
        /\ UNCHANGED <<fixedVars, timerVars, stats, countVars>>

\* An executeOne that drops the config the engine holds when its load fails.
ExecuteOneCallForgetting(path) ==
    LET loaded == loadConfig(file.content)
        found == FindJob(loaded.crons, path)
    IN  /\ \A d \in inflight : d.origin # "one"
        /\ IF ~loaded.ok
           THEN /\ Throws("executeOne", loaded.error)
                /\ config' = NoConfig
                /\ UNCHANGED <<clock, inflight>>
           ELSE IF found = <<>>
           THEN /\ Reload(loaded)
                /\ Throws("executeOne", "JobNotFound")
                /\ UNCHANGED <<clock, inflight>>
           ELSE /\ CanDispatch
                /\ Reload(loaded)
                /\ clock' = clock + 1
                /\ inflight' = inflight \cup
                       {Dispatch(found[1], "one", 0, clock + 1)}
                /\ ret' = NoReturn
        /\ UNCHANGED <<fixedVars, timerVars, stats, allRun, countVars>>

ExecuteOneCall(path) ==
    LET loaded == loadConfig(file.content)
        found == FindJob(loaded.crons, path)
    IN  /\ \A d \in inflight : d.origin # "one"
        /\ IF ~loaded.ok
           THEN /\ Throws("executeOne", loaded.error)
                /\ UNCHANGED <<config, clock, inflight>>
           ELSE IF found = <<>>
           THEN /\ Reload(loaded)
                /\ Throws("executeOne", "JobNotFound")
                /\ UNCHANGED <<clock, inflight>>
           ELSE /\ CanDispatch
                /\ Reload(loaded)
                /\ clock' = clock + 1
                /\ inflight' = inflight \cup
                       {Dispatch(found[1], "one", 0, clock + 1)}
                /\ ret' = NoReturn
        /\ UNCHANGED <<fixedVars, timerVars, stats, allRun, countVars>>

\* A listJobs that loads the file on every call.
ListJobsReloading ==
    LET loaded == loadConfig(file.content)
    IN  /\ IF ~loaded.ok
           THEN /\ Throws("listJobs", loaded.error)
                /\ UNCHANGED config
           ELSE /\ Reload(loaded)
                /\ ret' = [op |-> "listJobs", outcome |-> "ok",
                           jobs |-> filterJobs(loaded.crons, options.filter)]
        /\ UNCHANGED <<fixedVars, timerVars, stats, clock, inflight, allRun,
                       countVars>>

\* listJobs() recording the size of the list it returns as totalJobs.
ListJobsCountingJobs ==
    LET loaded == loadConfig(file.content)
        crons == IF config.loaded THEN config.crons ELSE loaded.crons
    IN  /\ IF config.loaded
           THEN /\ ret' = [op |-> "listJobs", outcome |-> "ok",
                           jobs |-> filterJobs(crons, options.filter)]
                /\ stats' = [stats EXCEPT
                                !.totalJobs =
                                    Len(filterJobs(crons, options.filter))]
                /\ UNCHANGED config
           ELSE IF ~loaded.ok
           THEN /\ Throws("listJobs", loaded.error)
                /\ UNCHANGED <<config, stats>>
           ELSE /\ Reload(loaded)
                /\ ret' = [op |-> "listJobs", outcome |-> "ok",
                           jobs |-> filterJobs(crons, options.filter)]
                /\ stats' = [stats EXCEPT
                                !.totalJobs =
                                    Len(filterJobs(crons, options.filter))]
        /\ UNCHANGED <<fixedVars, timerVars, clock, inflight, allRun,
                       countVars>>

ListJobs ==
    LET loaded == loadConfig(file.content)
    IN  /\ IF config.loaded
           THEN /\ ret' = [op |-> "listJobs", outcome |-> "ok",
                           jobs |-> filterJobs(config.crons, options.filter)]
                /\ UNCHANGED config
           ELSE IF ~loaded.ok
           THEN /\ Throws("listJobs", loaded.error)
                /\ UNCHANGED config
           ELSE /\ Reload(loaded)
                /\ ret' = [op |-> "listJobs", outcome |-> "ok",
                           jobs |-> filterJobs(loaded.crons, options.filter)]
        /\ UNCHANGED <<fixedVars, timerVars, stats, clock, inflight, allRun,
                       countVars>>

\* getStats() returning this.stats itself instead of a copy of it.
getStatsLive(st) == [object |-> "this.stats", fields |-> st]

\* getStats(): { ...this.stats }, a new object holding the values the fields
\* of this.stats have at the call.
getStats(st) == [object |-> "new", fields |-> st]

\* What the caller reads in an object getStats() returned.
Read(h) == IF h.object = "this.stats" THEN stats ELSE h.fields

GetStats ==
    /\ Cardinality(held) < MaxHeld
    /\ held' = held \cup {getStats(stats)}
    /\ ret' = [op |-> "getStats", outcome |-> "ok", object |-> getStats(stats)]
    /\ UNCHANGED <<options, file, env, cli, config, timerVars, stats, clock,
                   inflight, allRun, countVars>>

\* The caller assigns a counter field of an object getStats() returned.
WrittenFields == {"totalJobs", "successfulExecutions", "failedExecutions"}
WrittenValues == {9}
WriteHeld(h, field, v) ==
    /\ h \in held
    /\ Read(h)[field] # v
    /\ IF h.object = "this.stats"
       THEN /\ stats' = [stats EXCEPT ![field] = v]
            /\ UNCHANGED held
       ELSE /\ held' = (held \ {h}) \cup {[h EXCEPT !.fields[field] = v]}
            /\ UNCHANGED stats
    /\ ret' = NoReturn
    /\ UNCHANGED <<options, file, env, cli, config, timerVars, clock,
                   inflight, allRun, countVars>>

\* A callback that looks its job up by path in the config the engine holds
\* when it runs.
TimerFiresFromConfig(t) ==
    LET found == IF config.loaded THEN FindJob(config.crons, t.job.path)
                 ELSE <<>>
        job == IF found = <<>> THEN t.job ELSE found[1]
    IN  /\ t \in timers
        /\ CanDispatch
        /\ clock' = clock + 1
        /\ inflight' = inflight \cup {Dispatch(job, "timer", t.id, clock + 1)}
        /\ ret' = NoReturn
        /\ UNCHANGED <<fixedVars, config, timerVars, stats, allRun,
                       countVars>>

\* Timers that wait for one another: a callback runs only when no dispatch
\* is pending.
TimerFiresWhenIdle(t) ==
    /\ t \in timers
    /\ inflight = {}
    /\ CanDispatch
    /\ clock' = clock + 1
    /\ inflight' = inflight \cup {Dispatch(t.job, "timer", t.id, clock + 1)}
    /\ ret' = NoReturn
    /\ UNCHANGED <<fixedVars, config, timerVars, stats, allRun, countVars>>

\* The schedule of ScheduledTask t matures: node-cron calls its callback,
\* which runs executeCron(job) up to the fetch.
TimerFires(t) ==
    /\ t \in timers
    /\ CanDispatch
    /\ clock' = clock + 1
    /\ inflight' = inflight \cup {Dispatch(t.job, "timer", t.id, clock + 1)}
    /\ ret' = NoReturn
    /\ UNCHANGED <<fixedVars, config, timerVars, stats, allRun, countVars>>

\* An executeCron that calls fetchFn a second time when the first call
\* rejected or brought a response that is not ok.
FetchSettlesRetrying(d, outcome) ==
    /\ d \in inflight
    /\ d.phase = "fetch"
    /\ IF d.calls = 1 /\ (~outcome.resolved \/ ~outcome.response.ok)
       THEN /\ inflight' = (inflight \ {d}) \cup {[d EXCEPT !.calls = 2]}
            /\ ret' = NoReturn
            /\ UNCHANGED <<fixedVars, config, timerVars, stats, clock,
                           allRun, countVars>>
       ELSE IF ~outcome.resolved
       THEN /\ Resume(d, SettleOnThrown(d, outcome.thrown),
                      StatsOnThrown(stats, d, outcome.thrown), outcome)
            /\ UNCHANGED logged
       ELSE IF ReadsBody(options.verbose, outcome.response)
       THEN /\ inflight' = (inflight \ {d}) \cup
                   {[d EXCEPT !.phase = "body"] @@
                    [response |-> outcome.response]}
            /\ ret' = NoReturn
            /\ UNCHANGED <<fixedVars, config, timerVars, stats, clock,
                           allRun, countVars>>
       ELSE /\ Resume(d, SettleOnResponse(d, outcome.response),
                      StatsOnResponse(stats, d, outcome.response), outcome)
            /\ LogBody(options.verbose,
                       responseBody(outcome.response, NoBody))

\* The transport call of dispatch d settles and executeCron runs on: to the
\* body read (its next await), or to its end.
FetchSettles(d, outcome) ==
    /\ d \in inflight
    /\ d.phase = "fetch"
    /\ IF ~outcome.resolved
       THEN /\ Resume(d, SettleOnThrown(d, outcome.thrown),
                      StatsOnThrown(stats, d, outcome.thrown), outcome)
            /\ UNCHANGED logged
       ELSE IF ReadsBody(options.verbose, outcome.response)
       THEN /\ inflight' = (inflight \ {d}) \cup
                   {[d EXCEPT !.phase = "body"] @@
                    [response |-> outcome.response]}
            /\ ret' = NoReturn
            /\ UNCHANGED <<fixedVars, config, timerVars, stats, clock,
                           allRun, countVars>>
       ELSE /\ Resume(d, SettleOnResponse(d, outcome.response),
                      StatsOnResponse(stats, d, outcome.response), outcome)
            /\ LogBody(options.verbose,
                       responseBody(outcome.response, NoBody))

\* A body read whose error escapes to the catch block of executeCron.
BodySettlesPropagating(d, body) ==
    /\ d \in inflight
    /\ d.phase = "body"
    /\ LogBody(options.verbose, responseBody(d.response, body))
    /\ IF body.read
       THEN Resume(d, SettleOnResponse(d, d.response),
                   StatsOnResponse(stats, d, d.response),
                   Resolved(d.response))
       ELSE Resume(d,
                   SettleOnThrown(d, [isError |-> TRUE,
                                      message |-> "body read failed"]),
                   StatsOnThrown(stats, d,
                                 [isError |-> TRUE,
                                  message |-> "body read failed"]),
                   Resolved(d.response))

\* The body read of dispatch d ends (a read error is caught and only changes
\* what is logged) and executeCron runs to its end.
BodyEnds(d) ==
    /\ d \in inflight
    /\ d.phase = "body"
    /\ Resume(d, SettleOnResponse(d, d.response),
              StatsOnResponse(stats, d, d.response), Resolved(d.response))

BodySettles(d, body) ==
    /\ BodyEnds(d)
    /\ LogBody(options.verbose, responseBody(d.response, body))

\* Someone edits the config file.
EditFile(f) ==
    /\ file.edits < MaxEdits
    /\ f # file.content
    /\ file' = [content |-> f, edits |-> file.edits + 1]
    /\ ret' = NoReturn
    /\ UNCHANGED <<options, env, held, cli, config, timerVars, stats, clock,
                   inflight,
                   allRun, countVars>>

\* The environment variable CRON_SECRET is set, changed or unset.
SetEnv(v) ==
    /\ v # env
    /\ env' = v
    /\ ret' = NoReturn
    /\ UNCHANGED <<options, file, held, cli, config, timerVars, stats, clock,
                   inflight, allRun, countVars>>

\* Every operation, timer firing and settlement of the engine, the config
\* file staying as it is.
Next ==
    \/ Start
    \/ Stop
    \/ ExecuteAllCall
    \/ \E p \in Paths : ExecuteOneCall(p)
    \/ ListJobs
    \/ \E t \in timers : TimerFires(t)
    \/ \E d \in inflight : \E o \in CoreOutcomes : FetchSettles(d, o)
    \/ \E d \in inflight : \E b \in CoreBodyReads : BodySettles(d, b)

Spec == Init /\ [][Next]_vars

\* What executeOne is called with: the path of a job, or a string that is
\* no job's path although, read as a filter pattern, it would match one.
Arguments == Paths \cup {FilterA}

\* The one-shot mode on its own: an engine constructed with any options over
\* a config file that loads, used only through executeAll and executeOne,
\* the transport answering in every way it can.
InitDispatch ==
    /\ options \in OptionSets
    /\ file \in [content : {FileCrons(l) : l \in CronLists}, edits : {0}]
    /\ env = ""
    /\ held = {}
    /\ cli = NotRun
    /\ Constructed

NextDispatch ==
    \/ ExecuteAllCall
    \/ \E p \in Arguments : ExecuteOneCall(p)
    \/ \E d \in inflight : \E o \in Outcomes : FetchSettles(d, o)
    \/ \E d \in inflight : \E b \in BodyReads : BodySettles(d, b)

SpecDispatch == InitDispatch /\ [][NextDispatch]_vars

\* The watch mode on its own: start, the timers firing and their dispatches
\* settling, stop.
NextWatch ==
    \/ Start
    \/ Stop
    \/ \E t \in timers : TimerFires(t)
    \/ \E d \in inflight : \E o \in CoreOutcomes : FetchSettles(d, o)
    \/ \E d \in inflight : \E b \in CoreBodyReads : BodySettles(d, b)

SpecWatch == Init /\ [][NextWatch]_vars

\* The engine over a config file that is edited while it lives: every
\* operation that reads the file (stop() does not), and the edits.  What is logged and how a
\* dispatch ends make no difference to what is read, so the engine is
\* silent and its transport answers in one way.
InitReload ==
    /\ options \in {o \in CoreOptions : o.verbose = 0}
    /\ file \in [content : Files, edits : {0}]
    /\ env = ""
    /\ held = {}
    /\ cli = NotRun
    /\ Constructed

ReloadOutcomes == {Resolved(Response(200, NoLength))}

NextReload ==
    \/ Start
    \/ ListJobs
    \/ ExecuteAllCall
    \/ \E p \in Paths : ExecuteOneCall(p)
    \/ \E d \in inflight : \E o \in ReloadOutcomes : FetchSettles(d, o)
    \/ \E f \in Files : EditFile(f)

SpecReload == InitReload /\ [][NextReload]_vars

\* The request headers on their own: engines constructed with and without
\* the cronSecret option, with and without CRON_SECRET in the environment,
\* the variable changing while the engine lives, and every way a dispatch
\* starts.  `given` and `ambient` keep what the constructor was called with
\* and found in the environment.
GivenSecrets == {"", "abc"}
EnvSecrets == {"", "xyz"}
Construct(given, ambient) ==
    [cronSecret |-> ResolveSecret(given, ambient), verbose |-> 0,
     filter |-> NoFilter, given |-> given, ambient |-> ambient]

InitAuth ==
    /\ env \in EnvSecrets
    /\ options \in {Construct(g, env) : g \in GivenSecrets}
    /\ file \in [content : {FileCrons(<<Job(PathA, EveryMinute),
                                        Job(PathB, Daily)>>)},
                 edits : {0}]
    /\ held = {}
    /\ cli = NotRun
    /\ Constructed

NextAuth ==
    \/ Start
    \/ \E t \in timers : TimerFires(t)
    \/ ExecuteAllCall
    \/ \E p \in Paths : ExecuteOneCall(p)
    \/ \E d \in inflight : \E o \in CoreOutcomes : FetchSettles(d, o)
    \/ \E v \in EnvSecrets : SetEnv(v)

SpecAuth == InitAuth /\ [][NextAuth]_vars

\* The path filter on its own: engines constructed with every filter
\* pattern of up to MaxFilterLen characters over `/`, a letter, `*` and the
\* regular-expression character `.`, over job lists whose paths differ in
\* length and in one character, and the three operations that filter.
FilterAlphabet == {"/", "a", "*", "."}
FilterPatterns ==
    UNION {[1..n -> FilterAlphabet] : n \in 0..MaxFilterLen}
PathAA == <<"/", "a", "a">>
PathASlashA == <<"/", "a", "/", "a">>
FilterPaths == {PathA, PathB, PathAA, PathASlashA}
FilterLists ==
    { <<Job(pq[1], EveryMinute), Job(pq[2], Daily)>> :
        pq \in {x \in FilterPaths \X FilterPaths : x[1] # x[2]} }
      \cup { <<Job(PathA, EveryMinute), Job(PathB, Daily),
               Job(PathAA, Daily), Job(PathASlashA, EveryMinute)>> }

InitFilter ==
    /\ options \in [cronSecret : {"abc"}, verbose : {0},
                    filter : FilterPatterns]
    /\ file \in [content : {FileCrons(l) : l \in FilterLists}, edits : {0}]
    /\ env = ""
    /\ held = {}
    /\ cli = NotRun
    /\ Constructed

NextFilter ==
    \/ ListJobs
    \/ Start
    \/ ExecuteAllCall

SpecFilter == InitFilter /\ [][NextFilter]_vars

\* The public calls alone, on every kind of config file: no timer matures
\* and the file is not edited.
NextCalls ==
    \/ Start
    \/ Stop
    \/ ListJobs
    \/ GetStats
    \/ ExecuteAllCall
    \/ \E p \in Paths : ExecuteOneCall(p)
    \/ \E d \in inflight : \E o \in ReloadOutcomes : FetchSettles(d, o)

SpecCalls == InitReload /\ [][NextCalls]_vars

\* Construction.  A baseUrl option is absent or a text, written as the
\* sequence of its parts: a scheme with its colon, `//`, what follows.
NoUrl == [defined |-> FALSE, text |-> <<>>]
Url(text) == [defined |-> TRUE, text |-> text]
BaseUrls ==
    { NoUrl, Url(<<>>), Url(<<"invalid-url">>), Url(<<"http:", "//">>),
      Url(<<"http:", "//", "localhost:3000">>),
      Url(<<"https:", "//", "example.com", "/app">>),
      Url(<<"localhost:", "3000">>) }

\* new URL(text) without a base: the text must begin with a scheme, and a
\* scheme of the web must be followed by a host.
Schemes == {"http:", "https:", "localhost:"}
WebSchemes == {"http:", "https:"}
ParsesAsUrl(text) ==
    /\ Len(text) >= 1
    /\ text[1] \in Schemes
    /\ text[1] \in WebSchemes => (Len(text) >= 2 /\ text[Len(text)] # "//")

\* A validateOptions that only checks that baseUrl is there.
validateOptionsPresenceOnly(baseUrl) ==
    IF ~baseUrl.defined \/ baseUrl.text = <<>>
    THEN "BaseUrlRequired" ELSE "ok"

\* validateOptions: "baseUrl is required" for an undefined or empty baseUrl,
\* "baseUrl must be a valid URL" when new URL(baseUrl) throws.
validateOptions(baseUrl) ==
    IF ~baseUrl.defined \/ baseUrl.text = <<>> THEN "BaseUrlRequired"
    ELSE IF ~ParsesAsUrl(baseUrl.text) THEN "BaseUrlInvalid"
    ELSE "ok"

\* Before `new CronRunner(...)` has returned there is no engine.
NoEngine == [constructed |-> FALSE]
Exists == "cronSecret" \in DOMAIN options

ConstructorInputs == [baseUrl : BaseUrls, cronSecret : GivenSecrets]

\* new CronRunner(input): the options are resolved, then validated; when
\* validateOptions throws, the constructor throws and no object is returned.
New(input) ==
    /\ ~Exists
    /\ IF validateOptions(input.baseUrl) = "ok"
       THEN /\ options' = [cronSecret |->
                               ResolveSecret(input.cronSecret, env),
                           verbose |-> 0, filter |-> NoFilter]
            /\ ret' = [op |-> "new", outcome |-> "ok",
                       baseUrl |-> input.baseUrl]
       ELSE /\ UNCHANGED options
            /\ ret' = [op |-> "new",
                       outcome |-> validateOptions(input.baseUrl),
                       baseUrl |-> input.baseUrl]
    /\ UNCHANGED <<file, env, held, cli, config, timerVars, stats, clock,
                   inflight, allRun, countVars>>

InitConstruct ==
    /\ options = NoEngine
    /\ file \in [content : Files, edits : {0}]
    /\ env \in EnvSecrets
    /\ held = {}
    /\ cli = NotRun
    /\ Constructed

NextConstruct ==
    \/ \E input \in ConstructorInputs : New(input)
    \/ Exists /\ ListJobs
    \/ Exists /\ Start
    \/ Exists /\ \E p \in Paths : ExecuteOneCall(p)
    \/ Exists /\ \E d \in inflight : \E o \in ReloadOutcomes :
                     FetchSettles(d, o)

SpecConstruct == InitConstruct /\ [][NextConstruct]_vars

\* The command line.  parseArgs() has run: --help, --list, the url, the
\* path of --execute (<<>> when absent) and --once.
CliArgs ==
    [help : BOOLEAN, list : BOOLEAN,
     url : {NoUrl, Url(<<"invalid-url">>),
            Url(<<"http:", "//", "localhost:3000">>)},
     execute : {<<>>, PathA, PathB}, once : BOOLEAN]

\* process.exit(code).
Exit(code) == cli' = [cli EXCEPT !.pos = "exited", !.code = <<code>>]

\* The options main() constructs the engine with, after validateOptions.
CliOptions == [cronSecret |-> ResolveSecret("", env), verbose |-> 0,
               filter |-> NoFilter]

\* A --once that exits with 0 whatever the dispatches did.
ExitCodeOnceIgnoringFailures(st) == 0

\* stats.failedExecutions > 0 ? 1 : 0
ExitCodeOnce(st) == IF st.failedExecutions > 0 THEN 1 ELSE 0

\* main() from its beginning to the call of the engine operation the
\* arguments select.
MainStarts ==
    /\ cli.pos = "parsed"
    /\ IF cli.args.help
       THEN Exit(0) /\ UNCHANGED options
       ELSE IF cli.args.list
       THEN IF validateOptions(Url(<<"http:", "//", "localhost:3000">>)) = "ok"
            THEN /\ options' = CliOptions
                 /\ cli' = [cli EXCEPT !.pos = "list"]
            ELSE Exit(1) /\ UNCHANGED options
       ELSE IF ~cli.args.url.defined \/ cli.args.url.text = <<>>
       THEN Exit(1) /\ UNCHANGED options
       ELSE IF validateOptions(cli.args.url) # "ok"
       THEN Exit(1) /\ UNCHANGED options
       ELSE /\ options' = CliOptions
            /\ cli' = [cli EXCEPT
                          !.pos = IF cli.args.execute # <<>> THEN "execute"
                                  ELSE IF cli.args.once THEN "once"
                                  ELSE "watch"]
    /\ ret' = NoReturn
    /\ UNCHANGED <<file, env, held, config, timerVars, stats, clock,
                   inflight, allRun, countVars>>

\* main() after the operation it called returned or threw: the catch block
\* exits with 1; --list exits with 0; --execute with 0 or 1 by
\* result.success; --once by the failures counted; watch mode installs the
\* signal handlers and stays.
MainResumes ==
    /\ cli.pos \in {"list", "execute", "once", "watch"}
    /\ ret.op \in {"listJobs", "executeOne", "executeAll", "start"}
    /\ IF ret.outcome # "ok" THEN Exit(1)
       ELSE CASE cli.pos = "list" -> Exit(0)
              [] cli.pos = "execute" ->
                     Exit(IF ret.result.success THEN 0 ELSE 1)
              [] cli.pos = "once" ->
                     Exit(ExitCodeOnce(getStats(stats).fields))
              [] cli.pos = "watch" -> cli' = [cli EXCEPT !.pos = "watching"]
    /\ ret' = NoReturn
    /\ UNCHANGED <<options, file, env, held, config, timerVars, stats, clock,
                   inflight, allRun, countVars>>

\* SIGINT or SIGTERM in watch mode: runner.stop(), then process.exit(0).
Signals == {"SIGINT", "SIGTERM"}
Signal(sig) ==
    /\ cli.pos = "watching"
    /\ timers' = {t \in timers : t.id \notin StoppedBy(tasks)}
    /\ tasks' = ClearedTasks(tasks)
    /\ ret' = [op |-> "stop", outcome |-> "ok", stopped |-> StoppedBy(tasks)]
    /\ Exit(0)
    /\ UNCHANGED <<options, file, env, held, config, nextHandle, stats,
                   clock, inflight, allRun, countVars>>

InitCli ==
    /\ options = NoEngine
    /\ file \in [content : Files, edits : {0}]
    /\ env = ""
    /\ held = {}
    /\ cli \in [args : CliArgs, pos : {"parsed"}, code : {<<>>}]
    /\ Constructed

NextCli ==
    \/ MainStarts
    \/ cli.pos = "list" /\ ret = NoReturn /\ ListJobs
    \/ cli.pos = "execute" /\ ret = NoReturn /\ clock = 0
          /\ ExecuteOneCall(cli.args.execute)
    \/ cli.pos = "once" /\ ret = NoReturn /\ clock = 0 /\ ExecuteAllCall
    \/ cli.pos = "watch" /\ ret = NoReturn /\ Start
    \/ cli.pos = "watching" /\ \E t \in timers : TimerFires(t)
    \/ cli.pos \in {"execute", "once", "watching"}
          /\ \E d \in inflight : \E o \in CoreOutcomes : FetchSettles(d, o)
    \/ MainResumes
    \/ \E sig \in Signals : Signal(sig)

SpecCli == InitCli /\ [][NextCli]_vars

\* The body capture on its own: one-shot dispatches at each verbosity, with
\* responses that declare no length, a length of nothing, of the cap and of
\* one more, and bodies that are empty, as long as the cap and one longer,
\* or fail to be read.
CaptureOutcomes ==
    { Resolved(Response(st, cl)) :
        st \in {200, 500},
        cl \in {NoLength, 0, maxBodySize, maxBodySize + 1} }
      \cup {Rejected([isError |-> TRUE, message |-> "fetch failed"])}
CaptureReads ==
    { [read |-> TRUE, length |-> 0], [read |-> TRUE, length |-> maxBodySize],
      [read |-> TRUE, length |-> maxBodySize + 1],
      [read |-> FALSE, length |-> 0] }

InitCapture ==
    /\ options \in [cronSecret : {"abc"}, verbose : {0, 1, 2},
                    filter : {NoFilter}]
    /\ file = [content |-> FileCrons(<<Job(PathA, EveryMinute),
                                        Job(PathB, Daily)>>),
               edits |-> 0]
    /\ env = ""
    /\ held = {}
    /\ cli = NotRun
    /\ Constructed

NextCapture ==
    \/ \E p \in Paths : ExecuteOneCall(p)
    \/ \E d \in inflight : \E o \in CaptureOutcomes : FetchSettles(d, o)
    \/ \E d \in inflight : \E b \in CaptureReads : BodySettles(d, b)

SpecCapture == InitCapture /\ [][NextCapture]_vars

\* The watch mode over a config file that is edited: the timers fire while
\* the one-shot operations and listJobs() reload the config.
InitEdited ==
    /\ options = [cronSecret |-> "abc", verbose |-> 0, filter |-> NoFilter]
    /\ file = [content |-> FileCrons(<<Job(PathA, EveryMinute),
                                        Job(PathB, Daily)>>),
               edits |-> 0]
    /\ env = ""
    /\ held = {}
    /\ cli = NotRun
    /\ Constructed

EditedFiles == {FileMissing} \cup {FileCrons(l) : l \in CronLists}

NextEdited ==
    \/ Start
    \/ Stop
    \/ \E t \in timers : TimerFires(t)
    \/ ListJobs
    \/ ExecuteAllCall
    \/ \E p \in Paths : ExecuteOneCall(p)
    \/ \E d \in inflight : \E o \in ReloadOutcomes : FetchSettles(d, o)
    \/ \E f \in EditedFiles : EditFile(f)

SpecEdited == InitEdited /\ [][NextEdited]_vars

\* The engine under a transport that answers: every pending transport call
\* eventually resolves or rejects, and every pending body read eventually
\* ends.  The calls are told apart by the time at which their dispatch
\* started.
TransportAnswers(ts) ==
    \E d \in inflight : \E o \in CoreOutcomes :
        d.timestamp = ts /\ FetchSettles(d, o)
BodyReadEnds(ts) ==
    \E d \in inflight : \E b \in CoreBodyReads :
        d.timestamp = ts /\ BodySettles(d, b)

InitLive ==
    /\ options \in [cronSecret : {"abc"}, verbose : {0, 2},
                    filter : {NoFilter}]
    /\ file = [content |-> FileCrons(<<Job(PathA, EveryMinute),
                                        Job(PathB, Daily)>>),
               edits |-> 0]
    /\ env = ""
    /\ held = {}
    /\ cli = NotRun
    /\ Constructed

NextLive ==
    \/ Start
    \/ Stop
    \/ \E t \in timers : TimerFires(t)
    \/ ExecuteAllCall
    \/ \E p \in Paths : ExecuteOneCall(p)
    \/ \E ts \in 1..MaxDispatches : TransportAnswers(ts)
    \/ \E ts \in 1..MaxDispatches : BodyReadEnds(ts)

SpecLive ==
    /\ InitLive
    /\ [][NextLive]_vars
    /\ \A ts \in 1..MaxDispatches :
           WF_vars(TransportAnswers(ts)) /\ WF_vars(BodyReadEnds(ts))

\* The engine under a caller that keeps and writes what getStats() returns,
\* between start() calls and one-shot dispatches.
InitStats ==
    /\ options = [cronSecret |-> "abc", verbose |-> 0, filter |-> NoFilter]
    /\ file \in [content : {FileCrons(l) : l \in CronLists}, edits : {0}]
    /\ env = ""
    /\ held = {}
    /\ cli = NotRun
    /\ Constructed

NextStats ==
    \/ GetStats
    \/ \E h \in held, field \in WrittenFields, v \in WrittenValues :
           WriteHeld(h, field, v)
    \/ Start
    \/ \E p \in Paths : ExecuteOneCall(p)
    \/ \E d \in inflight, outcome \in CoreOutcomes : FetchSettles(d, outcome)

SpecStats == InitStats /\ [][NextStats]_vars

-----------------------------------------------------------------------------
(* Vocabulary of the properties.                                           *)

\* The job list a start() or executeAll() call made now would act on.
\* (Meaningful only where the config file loads.)
FilteredNow == filterJobs(loadConfig(file.content).crons, options.filter)

\* Dispatch d of the current state settles in the step: no executeCron call
\* with its timestamp is suspended afterwards.
Settles(d) ==
    /\ d \in inflight
    /\ \A e \in inflight' : e.timestamp # d.timestamp

\* The dispatches started in the step by a timer callback.
FiredInStep == {d \in inflight' \ inflight : d.origin = "timer"}

-----------------------------------------------------------------------------
(* C1: start() is all-or-nothing.  When a job of the filtered set has a    *)
(* schedule that fails validation, whatever its position, start() throws   *)
(* the invalid-schedule error naming an invalid job's path and schedule,   *)
(* and no ScheduledTask created by the call is registered in this.tasks or *)
(* left running.                                                           *)
C1_StartAllOrNothing ==
    [][ (/\ ret'.op = "start"
         /\ loadConfig(file.content).ok
         /\ \E i \in 1..Len(FilteredNow) :
                ~validateCronSchedule(FilteredNow[i].schedule))
        => /\ ret'.outcome = "InvalidSchedule"
           /\ \E i \in 1..Len(FilteredNow) :
                /\ ~validateCronSchedule(FilteredNow[i].schedule)
                /\ ret'.path = FilteredNow[i].path
                /\ ret'.schedule = FilteredNow[i].schedule
           /\ timers' \subseteq timers
           /\ Range(tasks') \subseteq Range(tasks) ]_vars

-----------------------------------------------------------------------------
(* C2: under every interleaving of dispatches started by timers,           *)
(* executeAll and executeOne, successfulExecutions + failedExecutions is   *)
(* the number of dispatches that have completed, successfulExecutions the  *)
(* number that completed on an ok response, and no step decreases or       *)
(* resets either counter.                                                  *)
C2_CountersCountDispatches ==
    /\ [](/\ stats.successfulExecutions + stats.failedExecutions = nCompleted
          /\ stats.successfulExecutions = nOk)
    /\ [][/\ stats'.successfulExecutions >= stats.successfulExecutions
          /\ stats'.failedExecutions >= stats.failedExecutions]_vars

\* Two dispatches have completed, both on an ok response, and the one that
\* started first recorded its timestamp last: the two were in flight
\* together, and both are counted.
C2_Witness ==
    /\ nCompleted = 2
    /\ stats.successfulExecutions = 2
    /\ stats.lastExecution = <<1>>

-----------------------------------------------------------------------------
(* C3: every completed dispatch, whatever its outcome, updates             *)
(* lastExecution: right after a dispatch completes, lastExecution is       *)
(* defined and equals that dispatch's timestamp.                           *)
C3_LastExecutionSetByEveryDispatch ==
    [][\A d \in inflight :
          Settles(d) => stats'.lastExecution = <<d.timestamp>>]_vars

-----------------------------------------------------------------------------
(* C4: after stop() returns, no timer created by an earlier start() starts *)
(* a new dispatch until start() is called again.  In a state where the     *)
(* step just taken was stop(), start() has not been called since: the next *)
(* step must not be a timer callback starting a dispatch.                  *)
C4_NoFiringAfterStop ==
    [][ret.op = "stop" => FiredInStep = {}]_vars

-----------------------------------------------------------------------------
(* C5: a dispatch classifies its outcome, for every transport outcome: a   *)
(* response with ok status gives success = true with statusCode set and no *)
(* error; a response with non-ok status gives success = false with         *)
(* statusCode set and no error; a transport exception gives success =      *)
(* false with error set to the exception's message ("Unknown error" when   *)
(* what was thrown is no Error and so has none) and no statusCode.  The    *)
(* result always carries the dispatched job's path and schedule.           *)

\* The result the caller of dispatch d receives in the step that settles it:
\* what executeOne returns, or what executeAll has just pushed.
ResultIn(d) ==
    IF d.origin = "one" THEN ret'.result
    ELSE IF allRun'.active THEN allRun'.results[Len(allRun'.results)]
    ELSE ret'.results[Len(ret'.results)]

\* The transport of dispatch d ended as o in the step, and the dispatch
\* settles in it.
EndsAs(d, o) ==
    /\ Settles(d)
    /\ \/ FetchSettles(d, o)
       \/ /\ d.phase = "body"
          /\ o = Resolved(d.response)
          /\ \E b \in BodyReads : BodySettles(d, b)

Classified(r, d, o) ==
    /\ r.path = d.job.path
    /\ r.schedule = d.job.schedule
    /\ IF o.resolved
       THEN /\ r.success = o.response.ok
            /\ "statusCode" \in DOMAIN r
            /\ r.statusCode = o.response.status
            /\ "error" \notin DOMAIN r
       ELSE /\ r.success = FALSE
            /\ "error" \in DOMAIN r
            /\ r.error = (IF o.thrown.isError THEN o.thrown.message
                          ELSE "Unknown error")
            /\ "statusCode" \notin DOMAIN r

C5_OutcomeClassified ==
    [][\A d \in inflight : \A o \in Outcomes :
          EndsAs(d, o) => Classified(ResultIn(d), d, o)]_vars

\* executeAll has returned one result of each kind at once: a response
\* that is not ok although no error status either (304) after the body was
\* read, and a thrown value that is no Error.
C5_Witness ==
    /\ ret.op = "executeAll"
    /\ ret.outcome = "ok"
    /\ options.verbose = 2
    /\ Len(ret.results) = 2
    /\ ret.results[1] =
           [path |-> PathA, schedule |-> EveryMinute, success |-> FALSE,
            statusCode |-> 304, timestamp |-> 1]
    /\ ret.results[2] =
           [path |-> PathB, schedule |-> Daily, success |-> FALSE,
            error |-> "Unknown error", timestamp |-> 2]

-----------------------------------------------------------------------------
(* C6: a per-dispatch failure (non-ok status or transport exception) never *)
(* raises out of executeAll, executeOne or a timer callback: no executeCron*)
(* call ever rejects, so executeAll and executeOne, once past loading and  *)
(* looking up their jobs, can only return their results, and no timer      *)
(* callback has ever rejected.                                             *)
C6_FailuresNeverRaise ==
    /\ nRejected = 0
    /\ ret.op \in {"executeAll", "executeOne"} =>
           /\ ret.outcome # "DispatchError"
           /\ ret.outcome \in {"ok", "NoMatchingJobs", "JobNotFound",
                               "ConfigNotFound", "InvalidJson", "TypeError",
                               "MissingCronsArray"}
    /\ (ret.op = "executeAll" /\ ret.outcome = "ok") =>
           Len(ret.results) >= 1
    /\ (ret.op = "executeOne" /\ ret.outcome = "ok") =>
           "result" \in DOMAIN ret

\* executeAll has returned its list although every dispatch of it failed,
\* one on a thrown error and one on a non-ok status, and a timer's dispatch
\* has failed before.
C6_Witness ==
    /\ ret.op = "executeAll"
    /\ ret.outcome = "ok"
    /\ Len(ret.results) = 2
    /\ "error" \in DOMAIN ret.results[1]
    /\ "statusCode" \in DOMAIN ret.results[2]
    /\ ~ret.results[2].success

-----------------------------------------------------------------------------
(* C7: in watch mode a failed dispatch does not remove or stop its timer:  *)
(* no dispatch outcome changes this.tasks or the running ScheduledTasks,   *)
(* and a timer whose dispatch failed can fire again and is counted again.  *)
C7_TimersSurviveFailures ==
    [][nCompleted' > nCompleted =>
          /\ tasks' = tasks
          /\ timers' = timers
          /\ nextHandle' = nextHandle]_vars

\* The only timer ever created has fired twice, both dispatches failed and
\* were counted, and it is still registered and running.
C7_Witness ==
    /\ nextHandle = 2
    /\ stats.failedExecutions = 2
    /\ nCompleted = 2
    /\ Cardinality(timers) = 1
    /\ Range(tasks) = {1}

-----------------------------------------------------------------------------
(* C8: start() from Idle on a filtered set of n >= 1 jobs with pairwise    *)
(* distinct paths and valid schedules validates every schedule, registers  *)
(* exactly n timers, one per job and keyed by its path, and a following    *)
(* stop() stops exactly those n handles: stop() stops exactly the handles  *)
(* of this.tasks, and nothing but start() and stop() changes this.tasks or *)
(* the running timers.                                                     *)

\* The jobs of the list have pairwise distinct paths.
DistinctPaths(jobs) ==
    \A i, j \in 1..Len(jobs) : jobs[i].path = jobs[j].path => i = j

\* The step is a start() from Idle on a filtered set of distinct paths and
\* valid schedules.
StartsFromIdle ==
    /\ ret'.op = "start"
    /\ tasks = EmptyMap
    /\ loadConfig(file.content).ok
    /\ FilteredNow # <<>>
    /\ DistinctPaths(FilteredNow)
    /\ \A i \in 1..Len(FilteredNow) :
           validateCronSchedule(FilteredNow[i].schedule)

C8_StartRegistersStopStops ==
    /\ [][StartsFromIdle =>
            /\ ret'.outcome = "ok"
            /\ Cardinality(timers' \ timers) = Len(FilteredNow)
            /\ timers \subseteq timers'
            /\ DOMAIN tasks' = {FilteredNow[i].path : i \in 1..Len(FilteredNow)}
            /\ Cardinality(Range(tasks')) = Len(FilteredNow)
            /\ \A i \in 1..Len(FilteredNow) :
                   \E t \in timers' \ timers :
                       /\ t.job = FilteredNow[i]
                       /\ tasks'[FilteredNow[i].path] = t.id
            /\ stats'.totalJobs = Len(FilteredNow)]_vars
    /\ [][ret'.op = "stop" =>
            /\ ret'.stopped = {tasks[p] : p \in DOMAIN tasks}
            /\ timers' = {t \in timers : t.id \notin ret'.stopped}
            /\ \A h \in ret'.stopped : \E t \in timers : t.id = h]_vars
    /\ [][ret'.op \notin {"start", "stop"} =>
            (tasks' = tasks /\ timers' = timers)]_vars

\* A stop() has just stopped the two handles a start() from Idle had
\* registered, and no timer is left running.
C8_Witness ==
    /\ ret.op = "stop"
    /\ ret.stopped = {1, 2}
    /\ timers = {}
    /\ tasks = EmptyMap
    /\ stats.totalJobs = 2

-----------------------------------------------------------------------------
(* C9: stop() is idempotent and always safe: from any state it leaves the  *)
(* Active Timer Set (this.tasks) empty, calling it from Idle changes       *)
(* nothing, and a second stop() right after a first stops no handle and    *)
(* leaves the set empty.                                                   *)
C9_StopIdempotent ==
    [][ret'.op = "stop" =>
          /\ ret'.outcome = "ok"
          /\ tasks' = EmptyMap
          /\ tasks = EmptyMap =>
                 /\ ret'.stopped = {}
                 /\ UNCHANGED <<options, file, env, held, cli, config, tasks,
                                timers,
                                nextHandle, stats, clock, inflight, allRun,
                                nCompleted, nOk, nRejected, logged>>
          /\ ret.op = "stop" =>
                 /\ ret'.stopped = {}
                 /\ tasks = EmptyMap
                 /\ timers' = timers]_vars

\* A second stop() in a row has returned, on an engine that had started
\* timers before and has dispatches of them still in flight.
C9_Witness ==
    /\ ret.op = "stop"
    /\ ret.stopped = {}
    /\ nextHandle > 1
    /\ inflight # {}
    /\ tasks = EmptyMap

-----------------------------------------------------------------------------
(* C10: executeAll() returns exactly one result per job of the filtered    *)
(* job list, in job-list order (result i has the path and schedule of      *)
(* filtered job i), and issues exactly one dispatch per such job; if the   *)
(* filtered list is empty it fails with the no-matching-jobs error and     *)
(* issues no dispatch.                                                     *)

\* The executeCron calls of the executeAll call in progress.
DispatchesOfRun(fl) == {d \in fl : d.origin = "all"}

\* Result r is the result of a dispatch of job.
ResultOf(r, job) == r.path = job.path /\ r.schedule = job.schedule

\* results holds one result per job of the first Len(results) jobs, in
\* order, each of a dispatch of its own.
OnePerJob(results, jobs) ==
    /\ Len(results) <= Len(jobs)
    /\ \A i \in 1..Len(results) : ResultOf(results[i], jobs[i])
    /\ \A i, j \in 1..Len(results) :
           i < j => results[i].timestamp < results[j].timestamp

C10_ExecuteAllOnePerJob ==
    /\ [](IF allRun.active
          THEN /\ OnePerJob(allRun.results, allRun.jobs)
               /\ Len(allRun.results) < Len(allRun.jobs)
               /\ Cardinality(DispatchesOfRun(inflight)) = 1
               /\ \A d \in DispatchesOfRun(inflight) :
                      /\ d.job = allRun.jobs[Len(allRun.results) + 1]
                      /\ \A i \in 1..Len(allRun.results) :
                             allRun.results[i].timestamp < d.timestamp
          ELSE DispatchesOfRun(inflight) = {})
    /\ [][(~allRun.active /\ allRun'.active) =>
            (allRun'.jobs = FilteredNow /\ allRun'.results = <<>>)]_vars
    /\ [][(allRun.active /\ allRun'.active) =>
            (allRun'.jobs = allRun.jobs
             /\ Len(allRun'.results) <= Len(allRun.results) + 1)]_vars
    /\ [][(ret'.op = "executeAll" /\ loadConfig(file.content).ok) =>
            IF FilteredNow = <<>>
            THEN /\ ret'.outcome = "NoMatchingJobs"
                 /\ inflight' = inflight
                 /\ clock' = clock
                 /\ allRun' = allRun
                 /\ ~allRun.active
            ELSE /\ ret'.outcome = "ok"
                 /\ allRun.active
                 /\ allRun.jobs = FilteredNow
                 /\ Len(ret'.results) = Len(FilteredNow)
                 /\ OnePerJob(ret'.results, FilteredNow)
                 /\ DispatchesOfRun(inflight') = {}]_vars

\* executeAll has returned the results of two different jobs, the first
\* failed and the second succeeded, in the order of the job list.
C10_Witness ==
    /\ ret.op = "executeAll"
    /\ ret.outcome = "ok"
    /\ Len(ret.results) = 2
    /\ ret.results[1].path = PathA
    /\ ~ret.results[1].success
    /\ ret.results[2].path = PathB
    /\ ret.results[2].success

-----------------------------------------------------------------------------
(* C11: when an executeAll() call resolves, the stats update of every one  *)
(* of its dispatches is already applied: if no other dispatch completed    *)
(* during the call, getStats() right after shows successfulExecutions      *)
(* increased by the number of returned results with success = true and     *)
(* failedExecutions by the number with success = false, compared with the  *)
(* values before the call.                                                 *)

\* How many results of the list have success = b.
CountSuccess(results, b) ==
    Cardinality({i \in 1..Len(results) : results[i].success = b})

\* The dispatches completed since the executeAll call in progress began are
\* n in number.
CompletedSinceCall(n) ==
    nCompleted' = allRun.before.successfulExecutions
                    + allRun.before.failedExecutions + n

C11_StatsAppliedOnResolve ==
    [][(/\ ret'.op = "executeAll"
        /\ ret'.outcome = "ok"
        /\ CompletedSinceCall(Len(ret'.results)))
       => /\ stats'.successfulExecutions =
                 allRun.before.successfulExecutions
                   + CountSuccess(ret'.results, TRUE)
          /\ stats'.failedExecutions =
                 allRun.before.failedExecutions
                   + CountSuccess(ret'.results, FALSE)]_vars

\* executeAll has resolved with a success and then a failure, and the
\* counters show one of each.
C11_Witness ==
    /\ ret.op = "executeAll"
    /\ ret.outcome = "ok"
    /\ Len(ret.results) = 2
    /\ ret.results[1].success
    /\ ~ret.results[2].success
    /\ stats.successfulExecutions = 1
    /\ stats.failedExecutions = 1

-----------------------------------------------------------------------------
(* C12: executeOne(path) looks the path up by exact equality in the        *)
(* unfiltered job list of the config as loaded by the call: a job the      *)
(* filter would exclude is still dispatched, the first job with the path   *)
(* is used when several share it, and when no job has the path the call    *)
(* fails with the job-not-found error.  On success the result's path is    *)
(* the argument.                                                           *)

\* The positions of the jobs with path p in the config file's job list.
Hits(p) ==
    {i \in 1..Len(loadConfig(file.content).crons) :
        loadConfig(file.content).crons[i].path = p}

\* The first of a non-empty set of positions.
First(hits) == CHOOSE i \in hits : \A j \in hits : i <= j

C12_ExecuteOneExactUnfiltered ==
    /\ [][\A p \in Arguments :
            (ExecuteOneCall(p) /\ loadConfig(file.content).ok) =>
                IF Hits(p) = {}
                THEN /\ ret'.op = "executeOne"
                     /\ ret'.outcome = "JobNotFound"
                     /\ inflight' = inflight
                ELSE \E d \in inflight' \ inflight :
                       /\ inflight' = inflight \cup {d}
                       /\ d.origin = "one"
                       /\ d.job = loadConfig(file.content).crons[First(Hits(p))]
                       /\ d.job.path = p]_vars
    /\ [][\A d \in inflight :
            (d.origin = "one" /\ Settles(d)) =>
                /\ ret'.op = "executeOne"
                /\ ret'.outcome = "ok"
                /\ ret'.result.path = d.job.path
                /\ ret'.result.schedule = d.job.schedule]_vars

\* executeOne has returned the result of the job on /b although the filter
\* of the engine selects only /a.
C12_Witness ==
    /\ ret.op = "executeOne"
    /\ ret.outcome = "ok"
    /\ options.filter = FilterA
    /\ filterJobs(config.crons, options.filter) # config.crons
    /\ ret.result.path = PathB
    /\ ret.result.schedule = Daily

-----------------------------------------------------------------------------
(* C13: executeAll() and executeOne() can be called in Idle and in         *)
(* Watching and leave the Active Timer Set unchanged: no step of either,   *)
(* from the call to its return or failure, registers, stops or removes a   *)
(* timer.                                                                  *)

\* The step belongs to an executeAll or executeOne call: the call returns
\* or throws in it, or one of its dispatches starts or settles in it.
OneShotStep ==
    \/ ret'.op \in {"executeAll", "executeOne"}
    \/ \E d \in (inflight' \ inflight) \cup (inflight \ inflight') :
           d.origin \in {"all", "one"}

C13_OneShotLeavesTimers ==
    [][OneShotStep =>
          /\ tasks' = tasks
          /\ timers' = timers
          /\ nextHandle' = nextHandle]_vars

\* executeOne has returned a failed result while two timers are registered
\* and running.
C13_Witness ==
    /\ ret.op = "executeOne"
    /\ ret.outcome = "ok"
    /\ ~ret.result.success
    /\ Cardinality(DOMAIN tasks) = 2
    /\ Cardinality(timers) = 2

-----------------------------------------------------------------------------
(* C14: stop() leaves RunnerStats unchanged: totalJobs,                    *)
(* successfulExecutions, failedExecutions and lastExecution have the same  *)
(* values right after stop() as right before it.                           *)
C14_StopLeavesStats ==
    [][ret'.op = "stop" =>
          /\ stats'.totalJobs = stats.totalJobs
          /\ stats'.successfulExecutions = stats.successfulExecutions
          /\ stats'.failedExecutions = stats.failedExecutions
          /\ stats'.lastExecution = stats.lastExecution]_vars

\* stop() has stopped two timers, and the statistics still show the two
\* jobs, a success, a failure and the time of the last response.
C14_Witness ==
    /\ ret.op = "stop"
    /\ Cardinality(ret.stopped) = 2
    /\ stats.totalJobs = 2
    /\ stats.successfulExecutions = 1
    /\ stats.failedExecutions = 1
    /\ stats.lastExecution # NoTime

-----------------------------------------------------------------------------
(* C15: totalJobs is written only by start(): executeAll, executeOne,      *)
(* stop, listJobs and timer firings, with the dispatches they start, never *)
(* change it (getStats only reads), and after a successful start() it      *)
(* equals the number of jobs in the filtered set of that start.            *)
C15_TotalJobsOnlyByStart ==
    [][/\ ret'.op # "start" => stats'.totalJobs = stats.totalJobs
       /\ (ret'.op = "start" /\ ret'.outcome = "ok") =>
              /\ stats'.totalJobs = Len(FilteredNow)
              /\ stats'.totalJobs = Cardinality(timers' \ timers)]_vars

\* A start() with a filter has succeeded on one of the file's two jobs,
\* after a dispatch of a one-shot call had completed, and totalJobs is 1.
C15_Witness ==
    /\ ret.op = "start"
    /\ ret.outcome = "ok"
    /\ Len(config.crons) = 2
    /\ stats.totalJobs = 1
    /\ nCompleted >= 1
    /\ timers = {[id |-> 1, job |-> Job(PathA, EveryMinute)]}

-----------------------------------------------------------------------------
(* C16: always-reload.  start(), executeAll() and executeOne() each act on *)
(* the job list as the config file holds it at the time of that call,      *)
(* never on a job list loaded by an earlier operation on the same engine;  *)
(* a change of the file between two such calls is visible to the second.   *)

\* The file holds a well-formed config now, and the job list it holds.
FileLoads == file.content.kind = "crons"
FileJobs == file.content.crons
FileSelected == filterJobs(FileJobs, options.filter)

\* The errors of a load that fails.
LoadErrors == {"ConfigNotFound", "InvalidJson", "TypeError",
               "MissingCronsArray"}

\* The jobs of a list, as a set.
JobsOf(jobs) == {jobs[i] : i \in 1..Len(jobs)}

\* start() acts on the file as it is.
StartReadsFile ==
    IF ~FileLoads
    THEN /\ ret'.op = "start"
         /\ ret'.outcome \in LoadErrors
         /\ timers' = timers
         /\ tasks' = tasks
    ELSE /\ config'.loaded
         /\ config'.crons = FileJobs
         /\ IF FileSelected = <<>>
            THEN ret'.outcome = "NoMatchingJobs" /\ timers' = timers
            ELSE /\ ret'.outcome \in {"ok", "InvalidSchedule"}
                 /\ stats'.totalJobs = Len(FileSelected)
                 /\ {t.job : t \in timers' \ timers} \subseteq
                        JobsOf(FileSelected)
                 /\ ret'.outcome = "ok" =>
                        {t.job : t \in timers' \ timers} =
                            JobsOf(FileSelected)

\* executeAll() acts on the file as it is.
ExecuteAllReadsFile ==
    IF ~FileLoads
    THEN /\ ret'.op = "executeAll"
         /\ ret'.outcome \in LoadErrors
         /\ inflight' = inflight
         /\ ~allRun'.active
    ELSE /\ config'.loaded
         /\ config'.crons = FileJobs
         /\ IF FileSelected = <<>>
            THEN /\ ret'.op = "executeAll"
                 /\ ret'.outcome = "NoMatchingJobs"
                 /\ inflight' = inflight
            ELSE /\ allRun'.active
                 /\ allRun'.jobs = FileSelected
                 /\ \E d \in inflight' \ inflight : d.job = FileSelected[1]

\* executeOne(p) acts on the file as it is.
ExecuteOneReadsFile(p) ==
    LET hits == {i \in 1..Len(FileJobs) : FileJobs[i].path = p}
    IN  IF ~FileLoads
        THEN /\ ret'.op = "executeOne"
             /\ ret'.outcome \in LoadErrors
             /\ inflight' = inflight
        ELSE /\ config'.loaded
             /\ config'.crons = FileJobs
             /\ IF hits = {}
                THEN /\ ret'.op = "executeOne"
                     /\ ret'.outcome = "JobNotFound"
                     /\ inflight' = inflight
                ELSE \E d \in inflight' \ inflight :
                         d.origin = "one" /\ d.job = FileJobs[First(hits)]

C16_AlwaysReload ==
    [][/\ Start => StartReadsFile
       /\ ExecuteAllCall => ExecuteAllReadsFile
       /\ \A p \in Paths : ExecuteOneCall(p) => ExecuteOneReadsFile(p)]_vars

\* The file was edited after a start(): a timer of that start is for a job
\* the file no longer holds, and an executeAll() called since runs on the
\* two jobs the file holds now.
C16_Witness ==
    /\ file.edits = 1
    /\ allRun.active
    /\ allRun.jobs = <<Job(PathA, EveryMinute), Job(PathA, Daily)>>
    /\ FileLoads
    /\ FileJobs = allRun.jobs
    /\ \E t \in timers : t.job = Job(PathB, Daily)

-----------------------------------------------------------------------------
(* C17: config reload property for listJobs(): when the config file is     *)
(* changed between two calls to listJobs() on the same engine, the second  *)
(* call's result reflects the changed file.  As stated: whenever the file  *)
(* holds a well-formed config, listJobs() returns the filtered job list of *)
(* the file as it is.                                                      *)
C17_ListJobsReflectsFile ==
    [][(ret'.op = "listJobs" /\ FileLoads) =>
          /\ ret'.outcome = "ok"
          /\ ret'.jobs = FileSelected]_vars

(* C17, as the engine behaves: listJobs() reads the file only while the    *)
(* engine holds no loaded config; once start(), executeAll(), executeOne() *)
(* or listJobs() itself has loaded one, listJobs() returns the filtered    *)
(* job list of that config, whatever the file holds now, and a change of   *)
(* the file shows only after one of the other three has loaded it.         *)
C17_ListJobsReusesLoadedConfig ==
    [][ret'.op = "listJobs" =>
          IF config.loaded
          THEN /\ ret'.outcome = "ok"
               /\ ret'.jobs = filterJobs(config.crons, options.filter)
               /\ config' = config
          ELSE IF FileLoads
          THEN /\ ret'.outcome = "ok"
               /\ ret'.jobs = FileSelected
               /\ config'.loaded
               /\ config'.crons = FileJobs
          ELSE /\ ret'.outcome \in LoadErrors
               /\ config' = config]_vars

\* listJobs() has returned, after an edit of the file, a job list that is
\* not the one the file holds.
C17_Witness ==
    /\ ret.op = "listJobs"
    /\ ret.outcome = "ok"
    /\ file.edits = 1
    /\ FileLoads
    /\ ret.jobs # FileSelected
    /\ ret.jobs = filterJobs(config.crons, options.filter)

-----------------------------------------------------------------------------
(* C18: for every well-formed config, listJobs() returns exactly the jobs  *)
(* whose path matches the configured filter, in their original order, and  *)
(* all jobs unchanged when no filter is configured; a path matches when    *)
(* the whole path, anchored at both ends, fits the pattern with each `*`   *)
(* standing for any substring, including the empty one and ones containing *)
(* '/'.  start() and executeAll() select the same jobs.  (Stated for the   *)
(* patterns made of `*` and characters that mean nothing to a regular      *)
(* expression; C19 is about the others.)                                   *)

\* Path s, whole, fits pattern pat, each `*` standing for any substring and
\* every other character for itself.
RECURSIVE GlobMatch(_, _)
GlobMatch(pat, s) ==
    IF pat = <<>> THEN s = <<>>
    ELSE IF Head(pat) = "*"
    THEN GlobMatch(Tail(pat), s) \/ (s # <<>> /\ GlobMatch(pat, Tail(s)))
    ELSE s # <<>> /\ Head(pat) = Head(s) /\ GlobMatch(Tail(pat), Tail(s))

\* The jobs of the list whose path fits the pattern, in their order.
RECURSIVE KeptByGlob(_, _)
KeptByGlob(jobs, pat) ==
    IF jobs = <<>> THEN <<>>
    ELSE IF GlobMatch(pat, Head(jobs).path)
    THEN <<Head(jobs)>> \o KeptByGlob(Tail(jobs), pat)
    ELSE KeptByGlob(Tail(jobs), pat)

\* The pattern holds no character that is significant in a regular
\* expression (other than the `*` the filter translates).
PlainPattern(pat) == \A i \in 1..Len(pat) : pat[i] # "."

\* What the three filtering operations do in the step when their selection
\* is `selected`.
SelectionIs(selected) ==
    /\ ret'.op = "listJobs" =>
           (ret'.outcome = "ok" /\ ret'.jobs = selected)
    /\ ret'.op = "start" =>
           IF selected = <<>>
           THEN ret'.outcome = "NoMatchingJobs" /\ timers' = timers
           ELSE /\ ret'.outcome = "ok"
                /\ stats'.totalJobs = Len(selected)
                /\ timers' \ timers =
                       {[id |-> nextHandle + i - 1, job |-> selected[i]] :
                            i \in 1..Len(selected)}
    /\ ret'.op = "executeAll" =>
           (selected = <<>> /\ ret'.outcome = "NoMatchingJobs"
            /\ ~allRun'.active)
    /\ (~allRun.active /\ allRun'.active) => allRun'.jobs = selected

C18_FilterSelectsMatchingJobs ==
    [][PlainPattern(options.filter) =>
          SelectionIs(IF options.filter = <<>> THEN FileJobs
                      ELSE KeptByGlob(FileJobs, options.filter))]_vars

\* listJobs() with the filter /a* has returned, of the four jobs of the
\* file, the three on /a, /aa and /a/a, in the file's order.
C18_Witness ==
    /\ ret.op = "listJobs"
    /\ options.filter = <<"/", "a", "*">>
    /\ Len(FileJobs) = 4
    /\ ret.jobs = <<Job(PathA, EveryMinute), Job(PathAA, Daily),
                    Job(PathASlashA, EveryMinute)>>

-----------------------------------------------------------------------------
(* C19: in a filter pattern only `*` is special: every other character of  *)
(* the pattern, including characters that are significant in regular       *)
(* expressions such as '.', is treated as a literal and matches only the   *)
(* identical character of the job path.                                    *)
C19_OnlyStarSpecial ==
    [][SelectionIs(IF options.filter = <<>> THEN FileJobs
                   ELSE KeptByGlob(FileJobs, options.filter))]_vars

\* Path s, whole, fits pattern pat, each `*` standing for any substring,
\* each `.` for any one character, and every other character for itself.
RECURSIVE WildMatch(_, _)
WildMatch(pat, s) ==
    IF pat = <<>> THEN s = <<>>
    ELSE IF Head(pat) = "*"
    THEN WildMatch(Tail(pat), s) \/ (s # <<>> /\ WildMatch(pat, Tail(s)))
    ELSE /\ s # <<>>
         /\ (Head(pat) = "." \/ Head(pat) = Head(s))
         /\ WildMatch(Tail(pat), Tail(s))

RECURSIVE KeptByWild(_, _)
KeptByWild(jobs, pat) ==
    IF jobs = <<>> THEN <<>>
    ELSE IF WildMatch(pat, Head(jobs).path)
    THEN <<Head(jobs)>> \o KeptByWild(Tail(jobs), pat)
    ELSE KeptByWild(Tail(jobs), pat)

(* C19, as the engine behaves: the pattern is handed to the matcher        *)
(* unescaped.  `*` stands for any substring, a character that means        *)
(* nothing to a regular expression matches only itself, and a character    *)
(* that is significant in regular expressions keeps that meaning: a '.' in *)
(* the pattern matches any one character of the path.                      *)
C19_DotMatchesAnyCharacter ==
    [][SelectionIs(IF options.filter = <<>> THEN FileJobs
                   ELSE KeptByWild(FileJobs, options.filter))]_vars

\* listJobs() with the filter /. has returned the jobs on /a and /b, of a
\* file in which no path holds a dot.
C19_Witness ==
    /\ ret.op = "listJobs"
    /\ options.filter = <<"/", ".">>
    /\ Len(FileJobs) = 4
    /\ ret.jobs = <<Job(PathA, EveryMinute), Job(PathB, Daily)>>

-----------------------------------------------------------------------------
(* C20: every dispatch request carries `Authorization: Bearer <secret>` if *)
(* and only if the secret resolved at construction (the explicit option,   *)
(* else the environment variable, else none) is non-empty; the secret is   *)
(* resolved once at construction and is the same for every dispatch of the *)
(* engine, whatever becomes of the environment variable afterwards.        *)

\* The secret as the claim resolves it from what the constructor was given
\* and found.
SecretAtConstruction ==
    IF options.given # "" THEN options.given ELSE options.ambient

C20_AuthorizationIffSecret ==
    \A d \in inflight :
        /\ d.headers.contentType = "application/json"
        /\ ("authorization" \in DOMAIN d.headers) <=>
               (SecretAtConstruction # "")
        /\ SecretAtConstruction # "" =>
               d.headers.authorization = <<"Bearer", SecretAtConstruction>>

\* A timer's dispatch and an executeOne dispatch are in flight, both with
\* the secret the constructor found in the environment, which has been
\* unset since.
C20_Witness ==
    /\ options.given = ""
    /\ options.ambient = "xyz"
    /\ env = ""
    /\ \E d \in inflight :
           d.origin = "timer" /\ d.headers.authorization = <<"Bearer", "xyz">>
    /\ \E d \in inflight :
           d.origin = "one" /\ d.headers.authorization = <<"Bearer", "xyz">>

-----------------------------------------------------------------------------
(* C21: getStats() returns a snapshot copy, never a live reference.  The   *)
(* object returned holds the values the statistics have at the call; the   *)
(* caller changing a field of a returned object does not change the        *)
(* engine's statistics; and no later step of the engine (a dispatch, a     *)
(* start()) changes what an object returned earlier holds.                 *)
CallerWrites ==
    \E h \in held, field \in WrittenFields, v \in WrittenValues :
        WriteHeld(h, field, v)

C21_GetStatsSnapshot ==
    [][ /\ ret'.op = "getStats" =>
               /\ \E h \in held' : h = ret'.object /\ Read(h)' = stats
               /\ stats' = stats
        /\ CallerWrites => stats' = stats
        /\ ~CallerWrites => \A h \in held : Read(h)' = Read(h) ]_vars

\* The caller holds an object returned before a dispatch completed and has
\* written its totalJobs: the object still shows no execution, the engine
\* has counted one, and the engine's totalJobs is not the written value.
C21_Witness ==
    \E h \in held :
        /\ Read(h).totalJobs = 9
        /\ Read(h).successfulExecutions = 0
        /\ stats.successfulExecutions = 1
        /\ stats.totalJobs # 9

-----------------------------------------------------------------------------
(* C22: a freshly constructed engine is Idle with empty statistics -- no   *)
(* ScheduledTask registered or running, totalJobs, successfulExecutions    *)
(* and failedExecutions 0, lastExecution absent, no dispatch started --    *)
(* and it stays so through every step that is neither a start() call nor   *)
(* the start of a dispatch (stop(), listJobs(), a one-shot call that       *)
(* throws before dispatching).                                             *)
Fresh ==
    /\ tasks = EmptyMap
    /\ timers = {}
    /\ stats.totalJobs = 0
    /\ stats.successfulExecutions = 0
    /\ stats.failedExecutions = 0
    /\ stats.lastExecution = NoTime
    /\ clock = 0
    /\ inflight = {}

C22_FreshUntilStartOrDispatch ==
    /\ Fresh
    /\ [][ (Fresh /\ ret'.op # "start" /\ clock' = clock) => Fresh' ]_vars

\* A fresh engine after a listJobs() that loaded the config file.
C22_Witness ==
    /\ Fresh
    /\ ret.op = "listJobs"
    /\ config.loaded

-----------------------------------------------------------------------------
(* C23: a configuration or lookup error -- config file not found, invalid  *)
(* JSON, no "crons" array, no job left by the filter, job path not found   *)
(* -- is thrown to the caller of start(), executeAll() or executeOne() and *)
(* has no effect on the dispatching state: the call starts no dispatch,    *)
(* registers and stops no timer, and changes no statistic.                 *)
LookupErrors == {"NoMatchingJobs", "JobNotFound"}

C23_ConfigErrorsHaveNoEffect ==
    [][ (/\ ret'.op \in {"start", "executeAll", "executeOne"}
         /\ ret'.outcome \in LoadErrors \cup LookupErrors)
        => /\ inflight' = inflight
           /\ clock' = clock
           /\ allRun' = allRun
           /\ timers' = timers
           /\ tasks' = tasks
           /\ nextHandle' = nextHandle
           /\ stats' = stats ]_vars

\* A start() thrown for want of a matching job on an engine that has timers
\* registered, jobs counted and a dispatch in flight from before the file
\* was edited; all of them are still there.
C23_Witness ==
    /\ ret.op = "start"
    /\ ret.outcome = "NoMatchingJobs"
    /\ timers # {}
    /\ stats.totalJobs > 0
    /\ inflight # {}

-----------------------------------------------------------------------------
(* C24: loading fails with the 'missing "crons" array' error for every     *)
(* well-formed JSON text whose top-level value has no array-typed crons    *)
(* field: an object without crons, an object whose crons is not an array,  *)
(* and a top-level value that is not an object, such as null.  Every call  *)
(* that reads such a file throws that error.                               *)
ShapelessKinds == {"nocrons", "cronsNotArray", "null"}

ReadsFile ==
    \/ ret'.op \in {"start", "executeAll", "executeOne"}
    \/ ret'.op = "listJobs" /\ ~config.loaded

C24_ShapeErrorForEveryShapelessJson ==
    [][ (ReadsFile /\ file.content.kind \in ShapelessKinds)
        => ret'.outcome = "MissingCronsArray" ]_vars

-----------------------------------------------------------------------------
(* C25: diagnostic capture never alters the outcome.  The success,         *)
(* statusCode and error of the result a dispatch returns, and the counter  *)
(* it increments, are determined by the transport outcome alone: they are  *)
(* the same at verbosity 0, 1 and 2, and at verbosity 2 the same however   *)
(* the body read ends (a text within the cap, a text over the cap, an      *)
(* error) and when a declared length over the cap skips the read.          *)
Maybe(r, field) == IF field \in DOMAIN r THEN <<r[field]>> ELSE <<>>

\* The part of a result the claim is about.
Verdict(r) ==
    [success |-> r.success, statusCode |-> Maybe(r, "statusCode"),
     error |-> Maybe(r, "error")]

\* The same, read off the transport outcome.
VerdictOf(o) ==
    IF o.resolved
    THEN [success |-> (o.response.status \in 200..299),
          statusCode |-> <<o.response.status>>, error |-> <<>>]
    ELSE [success |-> FALSE, statusCode |-> <<>>,
          error |-> <<IF o.thrown.isError THEN o.thrown.message
                      ELSE "Unknown error">>]

CountedAs(o) ==
    IF o.resolved /\ o.response.status \in 200..299
    THEN /\ stats'.successfulExecutions = stats.successfulExecutions + 1
         /\ stats'.failedExecutions = stats.failedExecutions
    ELSE /\ stats'.successfulExecutions = stats.successfulExecutions
         /\ stats'.failedExecutions = stats.failedExecutions + 1

C25_DiagnosticsNeverAlterOutcome ==
    [][\A d \in inflight :
          /\ \A o \in Outcomes :
                 EndsAs(d, o) => /\ Verdict(ResultIn(d)) = VerdictOf(o)
                                 /\ CountedAs(o)
          /\ (\E b \in BodyReads : BodySettles(d, b)) => BodyEnds(d)
          /\ (\E o \in Outcomes : FetchSettles(d, o) /\ ~Settles(d))
                 => UNCHANGED <<stats, allRun, countVars>> ]_vars

\* executeAll at verbosity 2 has returned a success and a failure, each
\* counted once, after the bodies of both responses were dealt with.
C25_Witness ==
    /\ options.verbose = 2
    /\ ret.op = "executeAll"
    /\ ret.outcome = "ok"
    /\ Len(ret.results) = 2
    /\ Verdict(ret.results[1]) =
           [success |-> TRUE, statusCode |-> <<200>>, error |-> <<>>]
    /\ Verdict(ret.results[2]) =
           [success |-> FALSE, statusCode |-> <<500>>, error |-> <<>>]
    /\ stats.successfulExecutions = 1
    /\ stats.failedExecutions = 1

-----------------------------------------------------------------------------
(* C26: no retry.  Each dispatch issues exactly one transport call, and a  *)
(* dispatch that failed (a response that is not ok, or an exception of the *)
(* transport) is never issued again by the engine: the transport calls     *)
(* made are one per dispatch started by a timer firing, executeAll or      *)
(* executeOne, and the only dispatch a settling step starts is that of the *)
(* next job of a running executeAll.                                       *)
Started == inflight' \ inflight

C26_NoRetry ==
    /\ [](/\ \A d \in inflight : d.calls = 1
          /\ clock = nCompleted + Cardinality(inflight))
    /\ [][ /\ Cardinality({d \in Started : d.phase = "fetch"})
               = clock' - clock
           /\ \A d \in inflight :
                  Settles(d) =>
                      \A e \in Started :
                          /\ d.origin = "all"
                          /\ e.origin = "all"
                          /\ e.job = allRun.jobs[Len(allRun.results) + 2] ]_vars

\* executeAll has returned two failures, one on a response that is not ok
\* and one on a rejected transport call, and exactly two dispatches were
\* ever started.
C26_Witness ==
    /\ ret.op = "executeAll"
    /\ ret.outcome = "ok"
    /\ Len(ret.results) = 2
    /\ "statusCode" \in DOMAIN ret.results[1]
    /\ "error" \in DOMAIN ret.results[2]
    /\ stats.failedExecutions = 2
    /\ clock = 2
    /\ inflight = {}

-----------------------------------------------------------------------------
(* C27: already-running exclusion.  While a dispatch started by a job's    *)
(* timer is in flight, a further firing of that timer starts no second     *)
(* dispatch: at any time at most one dispatch started by a given           *)
(* ScheduledTask is in flight (and so, for job lists without repeated      *)
(* paths, at most one timer-started dispatch per job path).                *)
C27_OneTimerDispatchInFlight ==
    \A d \in inflight : \A e \in inflight :
        (/\ d.origin = "timer"
         /\ e.origin = "timer"
         /\ d.handle = e.handle)
        => d = e

-----------------------------------------------------------------------------
(* C29: constructing an engine with a missing, empty or unparsable baseUrl *)
(* throws an error and yields no engine; with a baseUrl that parses as a   *)
(* URL the construction succeeds, whatever the config file is (missing,    *)
(* not JSON, without crons), and does not read it: no config is loaded and *)
(* nothing else of the engine's state is touched.                          *)
ParsableTexts ==
    { <<"http:", "//", "localhost:3000">>,
      <<"https:", "//", "example.com", "/app">>,
      <<"localhost:", "3000">> }

C29_WitnessRefused ==
    /\ ~Exists
    /\ ret.op = "new"
    /\ ret.outcome = "BaseUrlInvalid"
    /\ ret.baseUrl = Url(<<"http:", "//">>)

-----------------------------------------------------------------------------
(* C28: the command-line process exits with 0 or 1.  It exits with 0 only  *)
(* when the operation the arguments selected completed with every dispatch *)
(* of it successful: --help, a listing that returned, an executeOne whose  *)
(* result is a success, an executeAll whose results are all successes, or  *)
(* a watch mode that start() began and a signal ended (the dispatches of   *)
(* the timers are not dispatches of start()).  It exits with 1 when        *)
(* executeOne returned a failed result, when a dispatch of executeAll      *)
(* failed, and when the engine threw, in its constructor, in listJobs or   *)
(* in the operation.                                                       *)
Exits == cli.pos # "exited" /\ cli'.pos = "exited"
Returns(op) == ret.op = op /\ ret.outcome = "ok"
AllSucceeded(results) == \A i \in 1..Len(results) : results[i].success
EngineThrew ==
    \/ /\ cli.pos = "parsed"
       /\ ~cli.args.help
       /\ ~cli.args.list
       /\ cli.args.url.defined
       /\ cli.args.url.text \notin ParsableTexts
    \/ /\ cli.pos \in {"list", "execute", "once", "watch"}
       /\ ret.outcome # "ok"

C28_ExitCodes ==
    [][ Exits =>
          /\ cli'.code \in {<<0>>, <<1>>}
          /\ cli'.code = <<0>> =>
                \/ cli.pos = "parsed" /\ cli.args.help
                \/ cli.pos = "list" /\ Returns("listJobs")
                \/ /\ cli.pos = "execute"
                   /\ Returns("executeOne")
                   /\ ret.result.success
                \/ /\ cli.pos = "once"
                   /\ Returns("executeAll")
                   /\ AllSucceeded(ret.results)
                \/ cli.pos = "watching"
          /\ EngineThrew => cli'.code = <<1>>
          /\ (cli.pos = "execute" /\ Returns("executeOne")
                /\ ~ret.result.success) => cli'.code = <<1>>
          /\ (cli.pos = "once" /\ Returns("executeAll")
                /\ ~AllSucceeded(ret.results)) => cli'.code = <<1>> ]_vars

\* --once has exited with 1 after an executeAll in which one dispatch
\* succeeded and one failed.
C28_Witness ==
    /\ cli.pos = "exited"
    /\ cli.args.once
    /\ cli.code = <<1>>
    /\ stats.successfulExecutions = 1
    /\ stats.failedExecutions = 1

-----------------------------------------------------------------------------
(* C30: listJobs() returns the filter applied to the config most recently  *)
(* loaded successfully by any operation of this engine, and reads the file *)
(* itself only while no config has been loaded.  The config the engine     *)
(* holds changes only in a step of start(), executeAll(), executeOne() or  *)
(* (with none loaded) listJobs() that loads the file, and then to what the *)
(* file holds; each of the first three that finds a well-formed file       *)
(* replaces it; an operation whose load fails leaves it as it was, so a    *)
(* listJobs() after it still returns the earlier job list.                 *)
LoadsFile ==
    \/ Start
    \/ ExecuteAllCall
    \/ \E p \in Paths : ExecuteOneCall(p)
    \/ ~config.loaded /\ ListJobs

HoldsFile(c) == c.loaded /\ c.crons = FileJobs

C30_ListJobsOfLastLoadedConfig ==
    [][ /\ config' # config => (LoadsFile /\ FileLoads /\ HoldsFile(config'))
        /\ (LoadsFile /\ FileLoads) => HoldsFile(config')
        /\ (LoadsFile /\ ~FileLoads) =>
               (ret'.outcome \in LoadErrors /\ config' = config)
        /\ ret'.op = "listJobs" =>
               IF ret'.outcome = "ok"
               THEN /\ config'.loaded
                    /\ ret'.jobs = filterJobs(config'.crons, options.filter)
                    /\ config.loaded => config' = config
               ELSE ~config.loaded /\ ~FileLoads ]_vars

\* executeAll() has thrown on a file that does not load, and the engine
\* still holds the config it loaded before the file was replaced.
C30_WitnessFailedReload ==
    /\ ret.op = "executeAll"
    /\ ret.outcome \in LoadErrors
    /\ config.loaded
    /\ config.crons # <<>>

\* listJobs() has returned the job list of the config loaded earlier while
\* the file, edited since, holds nothing that loads.
C30_Witness ==
    /\ ret.op = "listJobs"
    /\ ret.outcome = "ok"
    /\ ret.jobs # <<>>
    /\ file.edits = 1
    /\ ~FileLoads
    /\ ret.jobs = filterJobs(config.crons, options.filter)

-----------------------------------------------------------------------------
(* C31: stop() neither waits for nor cancels the dispatches in flight.  It *)
(* returns with every pending dispatch still pending and the statistics as *)
(* they were; a dispatch a timer started before stop() completes           *)
(* afterwards and increments exactly one counter, so the statistics change *)
(* after stop() has returned, while the Timer Registry stays empty.        *)
OneCounterMore ==
    \/ /\ stats'.successfulExecutions = stats.successfulExecutions + 1
       /\ stats'.failedExecutions = stats.failedExecutions
    \/ /\ stats'.successfulExecutions = stats.successfulExecutions
       /\ stats'.failedExecutions = stats.failedExecutions + 1

C31_StopLeavesDispatchesPending ==
    [][ /\ ret'.op = "stop" =>
               /\ inflight' = inflight
               /\ stats' = stats
               /\ tasks' = EmptyMap
        /\ \A d \in inflight :
               (d.origin = "timer" /\ Settles(d) /\ tasks = EmptyMap)
               => /\ OneCounterMore
                  /\ tasks' = EmptyMap
                  /\ timers' = timers ]_vars

\* stop() has just returned with an empty registry and no timer running,
\* and a dispatch a timer started is still waiting for its response.
C31_Witness ==
    /\ ret.op = "stop"
    /\ tasks = EmptyMap
    /\ timers = {}
    /\ \E d \in inflight : d.origin = "timer" /\ d.phase = "fetch"

\* That dispatch has completed since: one execution is counted, nothing is
\* in flight, and the registry is still empty.
C31_WitnessCompleted ==
    /\ tasks = EmptyMap
    /\ timers = {}
    /\ nextHandle > 1
    /\ inflight = {}
    /\ nCompleted = 1

-----------------------------------------------------------------------------
(* C32: timers are independent.  A pending dispatch of one job never       *)
(* prevents the timer of another job from firing and starting its own      *)
(* dispatch; dispatches of different jobs are in flight together and each  *)
(* can complete whatever the others do, in either order; and start()       *)
(* returns in the step that registers the timers, without any firing:      *)
(* it starts no dispatch.  (While the budget of dispatches of the model    *)
(* allows a further one.)                                                  *)
C32_TimersIndependent ==
    /\ [](\A t \in timers :
             CanDispatch => ENABLED TimerFires(t))
    /\ [](\A d \in inflight :
             d.phase = "fetch" =>
                 \A o \in CoreOutcomes : ENABLED FetchSettles(d, o))
    /\ [][ ret'.op = "start" => (inflight' = inflight /\ clock' = clock)
         ]_vars

\* The dispatches of two jobs, started by their two timers, are in flight
\* together.
C32_Witness ==
    \E d \in inflight : \E e \in inflight :
        /\ d.origin = "timer"
        /\ e.origin = "timer"
        /\ d.handle # e.handle
        /\ d.job.path # e.job.path

\* The one that started second has completed, the first is still pending.
C32_WitnessSecondFirst ==
    /\ nCompleted = 1
    /\ \E d \in inflight : d.origin = "timer" /\ d.timestamp = 1

-----------------------------------------------------------------------------
(* C33: at verbosity 2 the body capture obeys the cap of 10240.  When the  *)
(* response declares a content-length above 10240 the body is not read and *)
(* a placeholder giving the declared size is logged; otherwise the body is *)
(* read, and logged whole when its length is at most 10240, as its first   *)
(* 10240 characters followed by a marker with the original length when it  *)
(* is longer.  At verbosity 0 and 1 the body is never read and no body is  *)
(* logged.  (A text of length 0 is logged as nothing.)                     *)
Cap == 10240

\* Dispatch d waits for its body after the step.
ReadsBodyNext(d) ==
    \E e \in inflight' : e.timestamp = d.timestamp /\ e.phase = "body"

FetchOf(d, resp) == d.phase = "fetch" /\ FetchSettles(d, Resolved(resp))

C33_BodyCaptureObeysCap ==
    /\ [](/\ options.verbose < 2 => logged = NoLine
          /\ \A d \in inflight : d.phase = "body" => options.verbose >= 2)
    /\ [][\A d \in inflight :
            /\ \A o \in CaptureOutcomes :
                  (o.resolved /\ FetchOf(d, o.response)) =>
                      LET cl == o.response.contentLength
                      IN  IF options.verbose < 2
                          THEN ~ReadsBodyNext(d) /\ logged' = logged
                          ELSE IF cl # NoLength /\ cl > Cap
                          THEN /\ ~ReadsBodyNext(d)
                               /\ logged'.kind = "tooLarge"
                               /\ logged'.declared = cl
                               /\ logged'.max = Cap
                          ELSE ReadsBodyNext(d) /\ logged' = logged
            /\ \A b \in CaptureReads :
                  (b.read /\ BodySettles(d, b)) =>
                      IF b.length = 0 THEN logged' = logged
                      ELSE IF b.length <= Cap
                      THEN logged' = [kind |-> "whole", length |-> b.length]
                      ELSE logged' = [kind |-> "truncated", shown |-> Cap,
                                      total |-> b.length] ]_vars

\* A body one character longer than the cap, from a response that declared
\* a length within the cap, has been logged truncated.
C33_Witness ==
    /\ options.verbose = 2
    /\ logged = [kind |-> "truncated", shown |-> 10240, total |-> 10241]
    /\ ret.op = "executeOne"
    /\ ret.outcome = "ok"

\* A response that declared one byte more than the cap: the placeholder.
C33_WitnessTooLarge ==
    /\ options.verbose = 2
    /\ logged = [kind |-> "tooLarge", declared |-> 10241, max |-> 10240]

-----------------------------------------------------------------------------
(* C34: lastExecution never moves backwards in time.  Under every          *)
(* interleaving of concurrent dispatches, each stamped when it starts and  *)
(* recorded when it completes, a step that writes lastExecution writes a   *)
(* time at least as late as the one it replaces, and never removes it.     *)
C34_LastExecutionNeverBackwards ==
    [][ stats.lastExecution # NoTime =>
            /\ stats'.lastExecution # NoTime
            /\ stats'.lastExecution[1] >= stats.lastExecution[1] ]_vars

-----------------------------------------------------------------------------
(* C35: a start() call that fails, for whatever reason (the config does    *)
(* not load, no job matches, a schedule is invalid), leaves the statistics *)
(* unchanged; totalJobs changes only in a start() that succeeds.           *)
C35_FailedStartLeavesStats ==
    [][ /\ (ret'.op = "start" /\ ret'.outcome # "ok") => stats' = stats
        /\ stats'.totalJobs # stats.totalJobs =>
               (ret'.op = "start" /\ ret'.outcome = "ok") ]_vars

-----------------------------------------------------------------------------
(* C36: a registered timer always dispatches the job, path and schedule,   *)
(* that the start() call which registered it captured.  A timer is created *)
(* only by start(), for a job of the filtered list of the file as start()  *)
(* read it; no later step -- an edit of the file, a reload by executeAll,  *)
(* executeOne or listJobs -- changes the job of a timer that is running;   *)
(* and every firing dispatches the job of its timer.                       *)
C36_TimerKeepsCapturedJob ==
    [][ /\ \A u \in timers' \ timers :
               /\ ret'.op = "start"
               /\ FileLoads
               /\ \E i \in 1..Len(FileSelected) : FileSelected[i] = u.job
               /\ \A t \in timers : t.id # u.id
        /\ \A d \in FiredInStep :
               \E t \in timers : t.id = d.handle /\ t.job = d.job ]_vars

\* The timer of /a, registered for the every-minute schedule, has fired
\* after the file was edited and executeOne("/a") had loaded from it a job
\* of the same path with another schedule: the timer's dispatch carries the
\* job start() captured, which the config the engine holds no longer has.
C36_Witness ==
    \E d \in inflight : \E e \in inflight :
        /\ d.origin = "timer"
        /\ e.origin = "one"
        /\ e.timestamp < d.timestamp
        /\ e.job.path = d.job.path
        /\ e.job # d.job
        /\ config.loaded
        /\ d.job \notin JobsOf(config.crons)

-----------------------------------------------------------------------------
(* C37: executeAll() dispatches sequentially.  An executeAll() call never  *)
(* has more than one of its own dispatches in flight: the dispatch of its  *)
(* first job starts in the step of the call, and the dispatch of job i+1   *)
(* starts in the step in which the dispatch of job i completes, has        *)
(* counted itself in the statistics and has had its result recorded.       *)
OwnDispatches(flight) == {d \in flight : d.origin = "all"}

C37_ExecuteAllSequential ==
    /\ [](Cardinality(OwnDispatches(inflight)) <= 1)
    /\ [][\A e \in OwnDispatches(inflight' \ inflight) :
            IF ~allRun.active
            THEN /\ allRun'.active
                 /\ allRun'.results = <<>>
                 /\ e.job = allRun'.jobs[1]
            ELSE \E d \in OwnDispatches(inflight) :
                    /\ Settles(d)
                    /\ OneCounterMore
                    /\ Len(allRun'.results) = Len(allRun.results) + 1
                    /\ d.job = allRun.jobs[Len(allRun'.results)]
                    /\ e.job = allRun.jobs[Len(allRun'.results) + 1] ]_vars

\* executeAll() is at its second job: the dispatch of the first has
\* completed as a failure and is counted, its result is recorded, and the
\* dispatch of the second is the only one in flight.
C37_Witness ==
    /\ allRun.active
    /\ Len(allRun.results) = 1
    /\ ~allRun.results[1].success
    /\ stats.failedExecutions = 1
    /\ inflight # {}
    /\ \A e \in inflight : e.origin = "all" /\ e.job = allRun.jobs[2]

-----------------------------------------------------------------------------
(* C38: if every transport call eventually resolves or rejects and every   *)
(* body read eventually ends, no dispatch stays in flight forever: every   *)
(* dispatch, whether a timer, executeAll or executeOne started it,         *)
(* eventually completes, incrementing one counter in the step in which it  *)
(* does, and every executeAll() and executeOne() call eventually returns   *)
(* or fails.                                                               *)
Pending(ts) == \E d \in inflight : d.timestamp = ts
AwaitsOne == \E d \in inflight : d.origin = "one"

C38_EveryDispatchCompletes ==
    /\ \A ts \in 1..MaxDispatches : Pending(ts) ~> ~Pending(ts)
    /\ allRun.active ~> ~allRun.active
    /\ AwaitsOne ~> (~AwaitsOne /\ ret.op = "executeOne")
    /\ [][\A d \in inflight :
            Settles(d) => (stats'.successfulExecutions + stats'.failedExecutions
                           = stats.successfulExecutions
                             + stats.failedExecutions + 1)]_vars

\* An executeAll() call has returned its two results after a failure of
\* its first dispatch, at the verbosity at which bodies are read, and
\* nothing is in flight.
C38_Witness ==
    /\ options.verbose = 2
    /\ ret.op = "executeAll"
    /\ ret.outcome = "ok"
    /\ Len(ret.results) = 2
    /\ ~ret.results[1].success
    /\ inflight = {}
    /\ ~allRun.active

=============================================================================
